---- MODULE Spec2Model ----
(***************************************************************************)
(* The Solana address-lookup-table demo: one page with four tabs.           *)
(*                                                                         *)
(* Spec is the "limits" tab.  Two builds of its "AddressLimitTest" exist   *)
(* in the repository: the single probe (address-limit-test.tsx:16) and the *)
(* comparison of the inline probe with the table-indexed probe             *)
(* (alt-card.tsx:255).  The page imports one component of that name, so a  *)
(* behaviour runs one of them.  SpecManage is the "manage" tab (ManageALT, *)
(* its ALTCards and their AddressSelectors), SpecFees the "compare" tab    *)
(* (CompareTransactions), and SpecTabs the page with any one of its tabs,  *)
(* the "create" tab (CreateALT) among them, open; a behaviour stays on the *)
(* tab it starts with.  LiveTabs is the page when every awaited call       *)
(* settles, and SpecUnits adds the two probes called on their own.         *)
(*                                                                         *)
(* The components are taken as units: a component stays mounted when the   *)
(* wallet disconnects, so that the wallet check at the head of each        *)
(* handler is exercised (the page itself mounts the tabs only while a      *)
(* wallet is connected).                                                   *)
(*                                                                         *)
(* The serializer of @solana/web3.js, the RPC connection, the wallet and   *)
(* the lookup-table program of the cluster are the environment: the        *)
(* serializer is an affine size function whose coefficients are fixed for  *)
(* a behaviour, every awaited call may reject, lookups of one table may    *)
(* resolve in any order, and a transaction runs all of its instructions or *)
(* none.                                                                   *)
(***************************************************************************)
EXTENDS Integers, Sequences, FiniteSets, TLC

VARIABLES
    variant,            \* which AddressLimitTest the page imports
    sizer,              \* coefficients of the external serializer
    publicKey,          \* useWallet().publicKey
    isLoading,          \* useState(false)
    status,             \* page-level status set through onStatusChange
    pc,                 \* position of the running handler, "idle" if none
    normalProbe,        \* locals of testNormalTransactionLimit
    altProbe,           \* locals of testALTTransactionLimit
    singleProbe,        \* locals of the single-probe testAddressLimit
    normalTestResult,   \* useState<TestResult>
    altTestResult,      \* useState<TestResult>
    addressLimitTest,   \* useState of the single-probe component
    pure,               \* inputs and results of the scan applied as a function
    tab,                \* the tab of the page whose content is mounted
    ledger,             \* the lookup tables held by the cluster
    started,            \* number of handlers of the "manage" tab started so far
    userALTs,           \* useState<ALTData[]> of ManageALT
    isLoadingALTs,      \* useState(false) of ManageALT
    fetch,              \* locals of the running fetchUserALTs
    cards,              \* per table: state of its ALTCard and AddressSelector
    refreshes,          \* refreshALT calls whose lookup has not resolved
    fees,               \* state and handler of CompareTransactions
    create              \* state and handler of CreateALT

manageVars == <<ledger, started, userALTs, isLoadingALTs, fetch, cards,
                refreshes>>

\* what the tab of the capacity probes never touches
offLimits == <<tab, manageVars, fees, create>>

\* the state of the capacity probes, apart from the wallet and the status
limitVars == <<variant, sizer, isLoading, pc, normalProbe, altProbe,
               singleProbe, normalTestResult, altTestResult, addressLimitTest,
               pure>>

vars == <<variant, sizer, publicKey, isLoading, status, pc, normalProbe,
          altProbe, singleProbe, normalTestResult, altTestResult,
          addressLimitTest, pure, offLimits>>

compVars == <<variant, sizer, publicKey, isLoading, status, pc, normalProbe,
              altProbe, singleProbe, normalTestResult, altTestResult,
              addressLimitTest, offLimits>>

----------------------------------------------------------------------------
(* Program constants *)

ByteCeiling == 1232
NormalPoolSize == 100
NormalMaxCount == 100
AltMaxCount == 256
SinglePoolSize == 50
SingleMaxCount == 50

(* Bounds of the model *)

\* the environment may make a sizing step throw only at counts up to this
MaxFailCount == 2

----------------------------------------------------------------------------
(* Values *)

NULL == "null"
Wallet == "wallet"

Min(a, b) == IF a <= b THEN a ELSE b

\* "if (!publicKey) return" at the head of a handler
NotConnected_Ignored(key) == FALSE

NotConnected(key) == key = NULL

\* disabled={isLoading} of the button that triggers a handler
Disabled_Never(loading) == FALSE

Disabled(loading) == loading

\* the serializer's size as a function of the number of transfers:
\*   inline:        hdr + n * perOp
\*   table-indexed: hdr + tblOverhead + n * tblPerOp
SizeModels ==
    { [hdr |-> 101, perOp |-> 49, tblOverhead |-> 36, tblPerOp |-> 18],
      [hdr |-> 100, perOp |-> 40, tblOverhead |-> 35, tblPerOp |-> 9],
      [hdr |-> 32,  perOp |-> 40, tblOverhead |-> 30, tblPerOp |-> 10],
      [hdr |-> 100, perOp |-> 9,  tblOverhead |-> 35, tblPerOp |-> 1] }

\* lengths of the address list the ledger returns for the temporary table
TableLens == {0, 100, 256}

\* messages of errors thrown by awaited calls
RpcError == "rpcError"
EncodingError == "encodingError"
NotFoundError == "tableNotFound"
WalletNotConnected == "walletNotConnected"

NoError == [kind |-> NULL, size |-> 0]
Thrown(msg) == [kind |-> msg, size |-> 0]
Exceeds(kind, size) == [kind |-> kind, size |-> size]

TestResult(m, e) == [maxAddresses |-> m, error |-> e]

\* a percentage as toFixed(1) prints it: a number in tenths of a percent,
\* "Infinity" (tenths carries the sign) or "NaN"; NoPct where none is printed
NoPct == [kind |-> "none", tenths |-> 0]
Pct(t) == [kind |-> "number", tenths |-> t]
InfinityPct(sign) == [kind |-> "Infinity", tenths |-> sign]
NaNPct == [kind |-> "NaN", tenths |-> 0]

Status(kind, n, pct) == [kind |-> kind, n |-> n, pct |-> pct]

\* locals of a probe: loop counter, result so far, history of sizing calls
FreshProbe ==
    [state |-> "none", count |-> 1, maxAddresses |-> 0, error |-> NoError,
     brk |-> FALSE, sized |-> <<>>, tableLen |-> -1, setupFailed |-> FALSE]

----------------------------------------------------------------------------
(* The serializer (environment) *)

SizeNormal(s, n) == s.hdr + n * s.perOp

SizeALT(s, n) == s.hdr + s.tblOverhead + n * s.tblPerOp

\* what one sizing attempt can yield: a byte count, or a thrown error
Outcomes(size, count) ==
    { [ok |-> TRUE, size |-> size, msg |-> ""] } \cup
    ( IF count <= MaxFailCount
      THEN { [ok |-> FALSE, size |-> 0, msg |-> m] : m \in {RpcError, EncodingError} }
      ELSE {} )

----------------------------------------------------------------------------
(* The probing loop *)

\* for (let count = 1; count <= limit; count++)
LoopContinues_OffByOne(count, limit) == count < limit

LoopContinues_OneMore(count, limit) == count <= limit + 1

LoopContinues(count, limit) == count <= limit

\* Math.min(256, altAddresses.length)
AltLimit_NoClamp(len) == AltMaxCount

AltLimit(len) == Min(AltMaxCount, len)

\* the body of the loop at p.count, given the outcome of the sizing attempt
LoopBodyAt_NoBreak(p, o, kind, ceiling) ==
    LET h == Append(p.sized, [count |-> p.count, ok |-> o.ok, size |-> o.size, msg |-> o.msg]) IN
    IF ~o.ok
    THEN [p EXCEPT !.error = Thrown(o.msg), !.count = p.count + 1, !.sized = h]
    ELSE IF o.size > ceiling
    THEN [p EXCEPT !.error = Exceeds(kind, o.size), !.count = p.count + 1, !.sized = h]
    ELSE [p EXCEPT !.maxAddresses = p.count, !.count = p.count + 1, !.sized = h]

LoopBodyAt_IgnoreSize(p, o, kind, ceiling) ==
    LET h == Append(p.sized, [count |-> p.count, ok |-> o.ok, size |-> o.size, msg |-> o.msg]) IN
    IF ~o.ok
    THEN [p EXCEPT !.error = Thrown(o.msg), !.brk = TRUE, !.sized = h]
    ELSE [p EXCEPT !.maxAddresses = p.count, !.count = p.count + 1, !.sized = h]

LoopBodyAt_ThrowCounts(p, o, kind, ceiling) ==
    LET h == Append(p.sized, [count |-> p.count, ok |-> o.ok, size |-> o.size, msg |-> o.msg]) IN
    IF ~o.ok
    THEN [p EXCEPT !.maxAddresses = p.count, !.error = Thrown(o.msg),
                   !.brk = TRUE, !.sized = h]
    ELSE IF o.size > ceiling
    THEN [p EXCEPT !.error = Exceeds(kind, o.size), !.brk = TRUE, !.sized = h]
    ELSE [p EXCEPT !.maxAddresses = p.count, !.count = p.count + 1, !.sized = h]

LoopBodyAt_GreaterEqual(p, o, kind, ceiling) ==
    LET h == Append(p.sized, [count |-> p.count, ok |-> o.ok, size |-> o.size, msg |-> o.msg]) IN
    IF ~o.ok
    THEN [p EXCEPT !.error = Thrown(o.msg), !.brk = TRUE, !.sized = h]
    ELSE IF o.size >= ceiling
    THEN [p EXCEPT !.error = Exceeds(kind, o.size), !.brk = TRUE, !.sized = h]
    ELSE [p EXCEPT !.maxAddresses = p.count, !.count = p.count + 1, !.sized = h]

LoopBodyAt_Less(p, o, kind, ceiling) ==
    LET h == Append(p.sized, [count |-> p.count, ok |-> o.ok, size |-> o.size, msg |-> o.msg]) IN
    IF ~o.ok
    THEN [p EXCEPT !.error = Thrown(o.msg), !.brk = TRUE, !.sized = h]
    ELSE IF o.size < ceiling
    THEN [p EXCEPT !.error = Exceeds(kind, o.size), !.brk = TRUE, !.sized = h]
    ELSE [p EXCEPT !.maxAddresses = p.count, !.count = p.count + 1, !.sized = h]

LoopBodyAt(p, o, kind, ceiling) ==
    LET h == Append(p.sized, [count |-> p.count, ok |-> o.ok, size |-> o.size, msg |-> o.msg]) IN
    IF ~o.ok
    THEN [p EXCEPT !.error = Thrown(o.msg), !.brk = TRUE, !.sized = h]
    ELSE IF o.size > ceiling
    THEN [p EXCEPT !.error = Exceeds(kind, o.size), !.brk = TRUE, !.sized = h]
    ELSE [p EXCEPT !.maxAddresses = p.count, !.count = p.count + 1, !.sized = h]

\* the loop is left by break or by its condition
LoopEnded_DoWhile(p, limit) ==
    p.brk \/ (p.count > 1 /\ ~LoopContinues(p.count, limit))

LoopEnded(p, limit) == p.brk \/ ~LoopContinues(p.count, limit)

\* the failures a probe's own try blocks cover: a throw in the loop body
\* (inner try/catch) and a throw while the temporary table is set up (outer
\* try/catch of the table-indexed probe)
ProbeCatches_LoopOnly(where) == where = "loop"

ProbeCatches(where) == where \in {"loop", "setup"}

\* a throw no try block of the probe covers leaves the probe as an exception
Escaped(p) == [p EXCEPT !.state = "threw"]

\* return { maxAddresses, error }
Returned(p) == [p EXCEPT !.state = "returned"]

ResultOf(p) == TestResult(p.maxAddresses, p.error)

\* one pass of the loop as a function: the test of the loop's condition and
\* the body at the current count; the serializer s, the addressing mode, the
\* loop bound, the byte ceiling, and the count at which an awaited call
\* rejects (0: none) are the inputs
ScanStep(p, s, mode, limit, ceiling, failAt) ==
    IF LoopEnded(p, limit)
    THEN p
    ELSE LET size == IF mode = "inline" THEN SizeNormal(s, p.count)
                                        ELSE SizeALT(s, p.count)
             kind == IF mode = "inline" THEN "sizeExceeded" ELSE "altSizeExceeded"
             o == IF p.count = failAt
                  THEN [ok |-> FALSE, size |-> 0, msg |-> RpcError]
                  ELSE [ok |-> TRUE, size |-> size, msg |-> ""]
         IN  LoopBodyAt(p, o, kind, ceiling)

\* the whole loop as a function of its inputs, four passes at a time
RECURSIVE Scan(_, _, _, _, _, _)
Scan(p, s, mode, limit, ceiling, failAt) ==
    IF LoopEnded(p, limit)
    THEN Returned(p)
    ELSE LET p1 == ScanStep(p, s, mode, limit, ceiling, failAt)
             p2 == ScanStep(p1, s, mode, limit, ceiling, failAt)
             p3 == ScanStep(p2, s, mode, limit, ceiling, failAt)
             p4 == ScanStep(p3, s, mode, limit, ceiling, failAt)
         IN  Scan(p4, s, mode, limit, ceiling, failAt)

----------------------------------------------------------------------------
(* The comparison arithmetic of testAddressLimit *)

Abs(x) == IF x < 0 THEN -x ELSE x

\* the quotients |improvement| / normal (normal <= 100, improvement within
\* 256) whose exact percentage ends in 5 hundredths but whose double product
\* (improvement / normal) * 100 lies just below it
BelowTie == { <<23, 80>>, <<41, 80>>, <<51, 80>>, <<87, 80>>, <<97, 80>>,
              <<169, 80>> }

\* ((improvement / normal) * 100).toFixed(1): a division by 0 gives NaN or an
\* infinity, which toFixed prints as such; otherwise toFixed rounds the
\* double to the nearest tenth, an exact tie away from zero
ToFixed1(improvement, normal) ==
    IF normal = 0
    THEN IF improvement = 0 THEN NaNPct
         ELSE InfinityPct(IF improvement < 0 THEN -1 ELSE 1)
    ELSE LET a == Abs(improvement)
             r == (2000 * a + normal) \div (2 * normal)
             q == IF <<a, normal>> \in BelowTie THEN r - 1 ELSE r
         IN  Pct(IF improvement < 0 THEN -q ELSE q)

\* the status reported when both probes have returned
FinalStatus_Reversed(normalResult, altResult) ==
    IF normalResult.maxAddresses > 0 /\ altResult.maxAddresses > 0
    THEN LET improvement == normalResult.maxAddresses - altResult.maxAddresses IN
         Status("improvement", improvement,
                ToFixed1(improvement, normalResult.maxAddresses))
    ELSE Status("done", 0, NoPct)

FinalStatus_NoBaselineGuard(normalResult, altResult) ==
    IF altResult.maxAddresses > 0
    THEN LET improvement == altResult.maxAddresses - normalResult.maxAddresses IN
         Status("improvement", improvement,
                ToFixed1(improvement, normalResult.maxAddresses))
    ELSE Status("done", 0, NoPct)

FinalStatus_Ratio(normalResult, altResult) ==
    IF normalResult.maxAddresses > 0 /\ altResult.maxAddresses > 0
    THEN LET improvement == altResult.maxAddresses - normalResult.maxAddresses IN
         Status("improvement", improvement,
                ToFixed1(altResult.maxAddresses, normalResult.maxAddresses))
    ELSE Status("done", 0, NoPct)

FinalStatus(normalResult, altResult) ==
    IF normalResult.maxAddresses > 0 /\ altResult.maxAddresses > 0
    THEN LET improvement == altResult.maxAddresses - normalResult.maxAddresses IN
         Status("improvement", improvement,
                ToFixed1(improvement, normalResult.maxAddresses))
    ELSE Status("done", 0, NoPct)

\* the comparison block the component renders from two stored results
RenderOf(normalResult, altResult) ==
    IF normalResult.maxAddresses > 0 /\ altResult.maxAddresses > 0
    THEN [shown |-> TRUE,
          delta |-> altResult.maxAddresses - normalResult.maxAddresses,
          pct |-> ToFixed1(altResult.maxAddresses - normalResult.maxAddresses,
                           normalResult.maxAddresses)]
    ELSE [shown |-> FALSE, delta |-> 0, pct |-> NoPct]

\* the locals a probe starts with: let maxAddresses = 0, let error = null,
\* whatever the other probe holds
ProbeLocals_Shared(other) ==
    [FreshProbe EXCEPT !.state = "running",
                       !.maxAddresses = other.maxAddresses,
                       !.error = other.error]

ProbeLocals(other) == [FreshProbe EXCEPT !.state = "running"]

----------------------------------------------------------------------------
(* Lookup tables on the cluster, and the state of the "manage" tab *)

\* the tables the connected wallet created before the behaviour starts
TableIds == {"T1", "T2"}

\* at most this many handlers of the "manage" tab are started
MaxStarted == 3

\* at most this many handlers and lookups are suspended at one time
MaxInFlight == 2

\* useState default of "newAddressCount"; the input is left at it
DefaultAddressCount == 5

\* positions of the address list whose checkbox the user clicks
PickIndices == {1}

\* PublicKey.toBase58 and new PublicKey(string)
ToBase58(key) == <<"base58", key>>
PublicKeyOf(str) == str[2]

NoTable == [exists |-> FALSE, addresses |-> <<>>, frozen |-> FALSE,
            rentTo |-> NULL]
Table(addrs) == [exists |-> TRUE, addresses |-> addrs, frozen |-> FALSE,
                 rentTo |-> NULL]

EmptyLedger == [t \in TableIds |-> NoTable]

InitialLedgers ==
    { [t \in TableIds |-> IF t = "T1" THEN Table(<<1, 2>>) ELSE Table(<<3>>)],
      [t \in TableIds |-> IF t = "T1" THEN Table(<<1>>) ELSE Table(<<>>)],
      [t \in TableIds |-> IF t = "T1" THEN Table(<<1>>) ELSE NoTable] }

\* generateRandomAddresses(count): the batch-th call yields keys no earlier
\* call and no table holds
GenerateRandomAddresses(batch, count) ==
    [j \in 1 .. count |-> 100 * batch + j]

\* AddressLookupTableProgram.extendLookupTable
ExtendInstruction(t, key, addrs) ==
    [op |-> "extend", lookupTable |-> t, authority |-> key, addresses |-> addrs,
     recipient |-> NULL]

\* AddressLookupTableProgram.createLookupTable: the instruction and the
\* address it derives from the authority and the slot; a slot is named by
\* the address derived from it
CreateLookupTable(key, recentSlot) ==
    [lookupTableInst |-> [op |-> "create", lookupTable |-> recentSlot,
                          authority |-> key, addresses |-> <<>>,
                          recipient |-> NULL],
     lookupTableAddress |-> recentSlot]

\* the instructions closeALT puts into its transaction
CloseInstructions_FreezeOnly(t, key) ==
    << [op |-> "freeze", lookupTable |-> t, authority |-> key,
        addresses |-> <<>>, recipient |-> NULL] >>

CloseInstructions_Stranger(t, key) ==
    << [op |-> "freeze", lookupTable |-> t, authority |-> key,
        addresses |-> <<>>, recipient |-> NULL],
       [op |-> "close", lookupTable |-> t, authority |-> key,
        addresses |-> <<>>, recipient |-> "stranger"] >>

CloseInstructions(t, key) ==
    << [op |-> "freeze", lookupTable |-> t, authority |-> key,
        addresses |-> <<>>, recipient |-> NULL],
       [op |-> "close", lookupTable |-> t, authority |-> key,
        addresses |-> <<>>, recipient |-> key] >>

\* the lookup-table program (environment): what an instruction does to the
\* table it names, and whether the program accepts it
Accepts(instr, tbl) ==
    /\ IF instr.op = "create" THEN ~tbl.exists ELSE tbl.exists
    /\ instr.authority = Wallet
    /\ instr.op = "extend" =>
          /\ ~tbl.frozen
          /\ Len(instr.addresses) > 0
          /\ Len(tbl.addresses) + Len(instr.addresses) <= AltMaxCount

Execute(instr, tbl) ==
    CASE instr.op = "extend" ->
             [tbl EXCEPT !.addresses = @ \o instr.addresses]
      [] instr.op = "freeze" -> [tbl EXCEPT !.frozen = TRUE]
      [] instr.op = "create" -> Table(<<>>)
      [] instr.op = "close" -> [NoTable EXCEPT !.rentTo = instr.recipient]

\* a transaction runs all its instructions or none
RECURSIVE RunTx(_, _)
RunTx(instrs, tbl) ==
    IF instrs = <<>> THEN [ok |-> TRUE, table |-> tbl]
    ELSE IF ~Accepts(Head(instrs), tbl) THEN [ok |-> FALSE, table |-> tbl]
    ELSE RunTx(Tail(instrs), Execute(Head(instrs), tbl))

\* what a submitted transaction and the await of its confirmation can come
\* to: it lands or not, and confirmTransaction resolves or rejects; a
\* transaction that failed on the cluster still resolves the await
Confirmations(instrs, tbl) ==
    { o \in [landed : BOOLEAN, resolves : BOOLEAN] :
          o.landed => RunTx(instrs, tbl).ok }

\* getProgramAccounts filtered by authority: the tables the wallet still
\* controls, in an order the node chooses
Listed == { t \in TableIds : ledger[t].exists /\ ~ledger[t].frozen }

Orders(S) ==
    { s \in [1 .. Cardinality(S) -> S] :
          \A i, j \in 1 .. Cardinality(S) : s[i] = s[j] => i = j }

\* state.addresses of a resolved getAddressLookupTable
Snapshot(t) == [exists |-> ledger[t].exists, addresses |-> ledger[t].addresses]

ALTData(t, addrs) == [address |-> t, addresses |-> addrs]

IdleFetch == [pc |-> "idle", accounts |-> <<>>, i |-> 1, alts |-> <<>>]

IdleHandler == [pc |-> "idle", instructions |-> <<>>, count |-> 0,
                orphan |-> FALSE]

IdleSend == [pc |-> "idle", selected |-> {}, table |-> <<>>,
             compiled |-> FALSE, orphan |-> FALSE]

\* a card as mounted: the useState defaults of ALTCard and AddressSelector,
\* no handler of it running
FreshCard ==
    [isLoading |-> FALSE, newAddressCount |-> DefaultAddressCount,
     selectedAddresses |-> {}, handler |-> IdleHandler,
     selLoading |-> FALSE, selError |-> NULL, send |-> IdleSend]

\* the fee comparison: transfers per transaction,
\* fees the node quotes (0 stands for a null quote too) and lengths of the
\* temporary table as resolved
FeeTransfers == 10
FeeValues == {0, 5000, 10000}
FeeTableLens == {0, FeeTransfers}

IdleFees ==
    [isLoading |-> FALSE, normalTxFee |-> 0, altTxFee |-> 0,
     normalTxSignature |-> "", altTxSignature |-> "", pc |-> "idle",
     tableLen |-> 0, destinations |-> {}, compiled |-> FALSE]

\* useState default of "addressCount" of CreateALT, and the values the user
\* types into its input
DefaultCreateCount == 10
CreateCounts == {0, DefaultCreateCount}

\* CreateALT as mounted: its useState defaults, its handler not running
IdleCreate ==
    [isLoading |-> FALSE, altAddress |-> "", addressCount |-> DefaultCreateCount,
     pc |-> "idle", count |-> 0, lookupTableAddress |-> NULL,
     instructions |-> <<>>]

----------------------------------------------------------------------------
(* Initial state: nothing connected, nothing run *)

PureIdle == [state |-> "unused"]

\* the "manage" tab and the "compare" tab as mounted, and as they stay while
\* another tab is open
ManageIdle ==
    /\ ledger = EmptyLedger
    /\ started = 0
    /\ userALTs = <<>>
    /\ isLoadingALTs = FALSE
    /\ fetch = IdleFetch
    /\ cards = [t \in TableIds |-> FreshCard]
    /\ refreshes = {}

LimitsIdle ==
    /\ variant = "compare"
    /\ sizer = [hdr |-> 101, perOp |-> 49, tblOverhead |-> 36, tblPerOp |-> 18]
    /\ isLoading = FALSE
    /\ pc = "idle"
    /\ normalProbe = FreshProbe
    /\ altProbe = FreshProbe
    /\ singleProbe = FreshProbe
    /\ normalTestResult = TestResult(0, NoError)
    /\ altTestResult = TestResult(0, NoError)
    /\ addressLimitTest = TestResult(0, NoError)
    /\ pure = PureIdle

Init ==
    /\ variant \in {"single", "compare"}
    /\ sizer \in SizeModels
    /\ publicKey = NULL
    /\ isLoading = FALSE
    /\ status = Status("", 0, NoPct)
    /\ pc = "idle"
    /\ normalProbe = FreshProbe
    /\ altProbe = FreshProbe
    /\ singleProbe = FreshProbe
    /\ normalTestResult = TestResult(0, NoError)
    /\ altTestResult = TestResult(0, NoError)
    /\ addressLimitTest = TestResult(0, NoError)
    /\ pure = PureIdle
    /\ tab = "limits"
    /\ ManageIdle
    /\ fees = IdleFees
    /\ create = IdleCreate

----------------------------------------------------------------------------
(* The wallet adapter (environment) *)

WalletConnect ==
    /\ publicKey = NULL
    /\ publicKey' = Wallet
    /\ UNCHANGED <<offLimits, variant, sizer, isLoading, status, pc, normalProbe, altProbe,
                   singleProbe, normalTestResult, altTestResult,
                   addressLimitTest, pure>>

WalletDisconnect ==
    /\ publicKey = Wallet
    /\ publicKey' = NULL
    /\ UNCHANGED <<offLimits, variant, sizer, isLoading, status, pc, normalProbe, altProbe,
                   singleProbe, normalTestResult, altTestResult,
                   addressLimitTest, pure>>

----------------------------------------------------------------------------
(* Comparison component: testAddressLimit and its two probes *)

\* catch and finally of a testAddressLimit handler: an exception that left a
\* probe is reported as a failed test and the loading flag is cleared
HandlerCatches ==
    /\ status' = Status("testFailed", 0, NoPct)
    /\ isLoading' = FALSE
    /\ pc' = "idle"

\* click on the button: the handler runs to the first await of the inline
\* probe (getLatestBlockhash of count 1)
TestAddressLimit ==
    /\ tab = "limits"
    /\ variant = "compare"
    /\ ~Disabled(isLoading)
    /\ pc = "idle"
    /\ IF NotConnected(publicKey)
       THEN UNCHANGED <<isLoading, status, normalProbe, pc>>
       ELSE /\ isLoading' = TRUE
            /\ status' = Status("testingNormal", 0, NoPct)
            /\ normalProbe' = ProbeLocals(altProbe)
            /\ pc' = "normal"
    /\ UNCHANGED <<offLimits, variant, sizer, publicKey, altProbe, singleProbe,
                   normalTestResult, altTestResult, addressLimitTest, pure>>

\* one iteration of the inline probe; when the loop ends the probe returns,
\* the result is stored and the table-indexed probe runs to its first await
NormalIter ==
    /\ pc = "normal"
    /\ \E o \in Outcomes(SizeNormal(sizer, normalProbe.count), normalProbe.count) :
         LET p == LoopBodyAt(normalProbe, o, "sizeExceeded", ByteCeiling) IN
         IF ~o.ok /\ ~ProbeCatches("loop")
         THEN /\ normalProbe' = Escaped(normalProbe)
              /\ HandlerCatches
              /\ UNCHANGED <<normalTestResult, altProbe>>
         ELSE IF LoopEnded(p, NormalMaxCount)
         THEN /\ normalProbe' = Returned(p)
              /\ normalTestResult' = ResultOf(p)
              /\ status' = Status("testingALT", 0, NoPct)
              /\ altProbe' = ProbeLocals(p)
              /\ pc' = "altGetSlot"
              /\ UNCHANGED isLoading
         ELSE /\ normalProbe' = p
              /\ UNCHANGED <<normalTestResult, status, altProbe, pc, isLoading>>
    /\ UNCHANGED <<offLimits, variant, sizer, publicKey, singleProbe,
                   altTestResult, addressLimitTest, pure>>

\* the table-indexed probe returns r: the handler stores it, reports the
\* comparison and clears the loading flag
AltReturns(p) ==
    /\ altProbe' = Returned(p)
    /\ altTestResult' = ResultOf(p)
    /\ status' = FinalStatus(ResultOf(normalProbe), ResultOf(p))
    /\ isLoading' = FALSE
    /\ pc' = "idle"

\* the outer catch of testALTTransactionLimit
AltSetupFails(msg) ==
    IF ProbeCatches("setup")
    THEN AltReturns([altProbe EXCEPT !.maxAddresses = 0, !.error = Thrown(msg),
                                     !.setupFailed = TRUE])
    ELSE /\ altProbe' = Escaped([altProbe EXCEPT !.setupFailed = TRUE])
         /\ HandlerCatches
         /\ UNCHANGED altTestResult

\* an awaited setup call of the table-indexed probe resolves or rejects
AltSetupStep(here, next) ==
    /\ pc = here
    /\ \/ /\ pc' = next
          /\ UNCHANGED <<altProbe, altTestResult, status, isLoading>>
       \/ AltSetupFails(RpcError)
    /\ UNCHANGED <<offLimits, variant, sizer, publicKey, normalProbe, singleProbe,
                   normalTestResult, addressLimitTest, pure>>

AltGetSlot == AltSetupStep("altGetSlot", "altSend")

AltSend == AltSetupStep("altSend", "altConfirm")

AltConfirm == AltSetupStep("altConfirm", "altWait")

\* the one-second timer
AltWait ==
    /\ pc = "altWait"
    /\ pc' = "altLookup"
    /\ UNCHANGED <<offLimits, variant, sizer, publicKey, isLoading, status, normalProbe,
                   altProbe, singleProbe, normalTestResult, altTestResult,
                   addressLimitTest, pure>>

\* getAddressLookupTable resolves with the table, resolves with no value, or
\* rejects; with a table the loop starts, unless its bound is 0
AltLookup ==
    /\ pc = "altLookup"
    /\ \/ AltSetupFails(RpcError)
       \/ AltSetupFails(NotFoundError)
       \/ \E len \in TableLens :
            LET p == [altProbe EXCEPT !.tableLen = len] IN
            IF LoopEnded(p, AltLimit(len))
            THEN AltReturns(p)
            ELSE /\ altProbe' = p
                 /\ pc' = "altLoop"
                 /\ UNCHANGED <<altTestResult, status, isLoading>>
    /\ UNCHANGED <<offLimits, variant, sizer, publicKey, normalProbe, singleProbe,
                   normalTestResult, addressLimitTest, pure>>

\* one iteration of the table-indexed probe
AltIter ==
    /\ pc = "altLoop"
    /\ \E o \in Outcomes(SizeALT(sizer, altProbe.count), altProbe.count) :
         LET p == LoopBodyAt(altProbe, o, "altSizeExceeded", ByteCeiling) IN
         IF ~o.ok /\ ~ProbeCatches("loop")
         THEN /\ altProbe' = Escaped(altProbe)
              /\ HandlerCatches
              /\ UNCHANGED altTestResult
         ELSE IF LoopEnded(p, AltLimit(altProbe.tableLen))
         THEN AltReturns(p)
         ELSE /\ altProbe' = p
              /\ UNCHANGED <<altTestResult, status, isLoading, pc>>
    /\ UNCHANGED <<offLimits, variant, sizer, publicKey, normalProbe, singleProbe,
                   normalTestResult, addressLimitTest, pure>>

----------------------------------------------------------------------------
(* Single-probe component: testAddressLimit of address-limit-test.tsx *)

SingleTestAddressLimit ==
    /\ tab = "limits"
    /\ variant = "single"
    /\ ~Disabled(isLoading)
    /\ pc = "idle"
    /\ IF NotConnected(publicKey)
       THEN UNCHANGED <<isLoading, status, singleProbe, pc>>
       ELSE /\ isLoading' = TRUE
            /\ status' = Status("testingNormal", 0, NoPct)
            /\ singleProbe' = [FreshProbe EXCEPT !.state = "running"]
            /\ pc' = "single"
    /\ UNCHANGED <<offLimits, variant, sizer, publicKey, normalProbe, altProbe,
                   normalTestResult, altTestResult, addressLimitTest, pure>>

SingleIter ==
    /\ pc = "single"
    /\ \E o \in Outcomes(SizeNormal(sizer, singleProbe.count), singleProbe.count) :
         LET p == LoopBodyAt(singleProbe, o, "sizeExceeded", ByteCeiling) IN
         IF ~o.ok /\ ~ProbeCatches("loop")
         THEN /\ singleProbe' = Escaped(singleProbe)
              /\ HandlerCatches
              /\ UNCHANGED addressLimitTest
         ELSE IF LoopEnded(p, SingleMaxCount)
         THEN /\ singleProbe' = Returned(p)
              /\ addressLimitTest' = ResultOf(p)
              /\ status' = Status("singleDone", p.maxAddresses, NoPct)
              /\ isLoading' = FALSE
              /\ pc' = "idle"
         ELSE /\ singleProbe' = p
              /\ UNCHANGED <<addressLimitTest, status, isLoading, pc>>
    /\ UNCHANGED <<offLimits, variant, sizer, publicKey, normalProbe, altProbe,
                   normalTestResult, altTestResult, pure>>

----------------------------------------------------------------------------

Next ==
    \/ WalletConnect
    \/ WalletDisconnect
    \/ TestAddressLimit
    \/ NormalIter
    \/ AltGetSlot
    \/ AltSend
    \/ AltConfirm
    \/ AltWait
    \/ AltLookup
    \/ AltIter
    \/ SingleTestAddressLimit
    \/ SingleIter

Spec == Init /\ [][Next]_vars

----------------------------------------------------------------------------
(* The scan applied as a function, for properties that compare two runs *)

\* what testNormalTransactionLimit and testALTTransactionLimit return when
\* called with the wallet key "key" and their scan comes to p
ProbeReturn(key, p) ==
    IF NotConnected(key) THEN TestResult(0, Thrown(WalletNotConnected))
    ELSE ResultOf(p)

\* byte ceilings the scan is applied with; the program's is ByteCeiling
Ceilings == {0, 140, 150, 1000, 1231, ByteCeiling, 1233, 5000}

\* loop bounds the scan is applied with
Limits == {0, SingleMaxCount, NormalMaxCount, AltMaxCount}

InitPure ==
    /\ variant = "compare"
    /\ sizer \in SizeModels
    /\ publicKey = NULL
    /\ isLoading = FALSE
    /\ status = Status("", 0, NoPct)
    /\ pc = "idle"
    /\ normalProbe = FreshProbe
    /\ altProbe = FreshProbe
    /\ singleProbe = FreshProbe
    /\ normalTestResult = TestResult(0, NoError)
    /\ altTestResult = TestResult(0, NoError)
    /\ addressLimitTest = TestResult(0, NoError)
    /\ pure \in [state : {"input"}, key : {NULL, Wallet},
                 c1 : Ceilings, c2 : Ceilings,
                 mode : {"inline", "table"}, limit : Limits,
                 failAt : 0 .. MaxFailCount,
                 r1 : {TestResult(0, NoError)}, r2 : {TestResult(0, NoError)},
                 selfStatus : {Status("", 0, NoPct)},
                 selfRender : {RenderOf(TestResult(0, NoError), TestResult(0, NoError))}]
    /\ tab = "none"
    /\ ManageIdle
    /\ fees = IdleFees
    /\ create = IdleCreate

\* the scan under both ceilings, and the first result compared with itself
PureApply ==
    /\ pure.state = "input"
    /\ LET r1 == ProbeReturn(pure.key,
                             Scan(FreshProbe, sizer, pure.mode, pure.limit,
                                  pure.c1, pure.failAt))
           r2 == ProbeReturn(pure.key,
                             Scan(FreshProbe, sizer, pure.mode, pure.limit,
                                  pure.c2, pure.failAt))
       IN  pure' = [pure EXCEPT !.state = "applied", !.r1 = r1, !.r2 = r2,
                                !.selfStatus = FinalStatus(r1, r1),
                                !.selfRender = RenderOf(r1, r1)]
    /\ UNCHANGED compVars

NextPure == PureApply

SpecPure == InitPure /\ [][NextPure]_vars

----------------------------------------------------------------------------
(* The "manage" tab: ManageALT, its ALTCards and their AddressSelectors.    *)
(* A card is modelled expanded, the state in which its controls exist.      *)

\* what the "manage" tab never touches
offManage == <<tab, limitVars, fees, publicKey, create>>

Mounted(t) == \E i \in 1 .. Len(userALTs) : userALTs[i].address = t

\* alt.addresses as passed to the card of table t
ViewOf(t) ==
    IF Mounted(t)
    THEN userALTs[CHOOSE i \in 1 .. Len(userALTs) : userALTs[i].address = t].addresses
    ELSE <<>>

\* handlers and lookups of the tab that are suspended at an await
InFlight ==
    (IF fetch.pc = "idle" THEN 0 ELSE 1)
    + Cardinality({ t \in TableIds : cards[t].handler.pc # "idle" })
    + Cardinality({ t \in TableIds : cards[t].send.pc # "idle" })
    + Cardinality(refreshes)

\* a card that leaves the list is unmounted: its state is gone, a handler of
\* it that is suspended runs on and its setState calls do nothing
Unmount(c) ==
    [FreshCard EXCEPT
        !.handler = IF c.handler.pc = "idle" THEN IdleHandler
                    ELSE [c.handler EXCEPT !.orphan = TRUE],
        !.send = IF c.send.pc = "idle" THEN IdleSend
                 ELSE [c.send EXCEPT !.orphan = TRUE]]

CardsUnder(list) ==
    [t \in TableIds |->
        IF \E i \in 1 .. Len(list) : list[i].address = t
        THEN cards[t] ELSE Unmount(cards[t])]

InitManage ==
    /\ tab = "manage"
    /\ LimitsIdle
    /\ publicKey = NULL
    /\ status = Status("", 0, NoPct)
    /\ ledger \in InitialLedgers
    /\ started = 0
    /\ userALTs = <<>>
    /\ isLoadingALTs = FALSE
    /\ fetch = IdleFetch
    /\ cards = [t \in TableIds |-> FreshCard]
    /\ refreshes = {}
    /\ fees = IdleFees
    /\ create = IdleCreate

\* click on "查询我的 ALTs": fetchUserALTs runs to the await of
\* getProgramAccounts
FetchUserALTs ==
    /\ tab = "manage"
    /\ ~Disabled(isLoadingALTs)
    /\ fetch.pc = "idle"
    /\ InFlight < MaxInFlight
    /\ started < MaxStarted
    /\ IF NotConnected(publicKey)
       THEN UNCHANGED <<started, isLoadingALTs, status, fetch>>
       ELSE /\ started' = started + 1
            /\ isLoadingALTs' = TRUE
            /\ status' = Status("querying", 0, NoPct)
            /\ fetch' = [IdleFetch EXCEPT !.pc = "accounts"]
    /\ UNCHANGED <<ledger, userALTs, cards, refreshes, offManage>>

\* the loop over the accounts has ended: setUserALTs, the count, finally
FetchDone_CountsAccounts(alts) ==
    /\ userALTs' = alts
    /\ cards' = CardsUnder(alts)
    /\ status' = Status("found", Len(fetch.accounts), NoPct)
    /\ isLoadingALTs' = FALSE
    /\ fetch' = IdleFetch

FetchDone(alts) ==
    /\ userALTs' = alts
    /\ cards' = CardsUnder(alts)
    /\ status' = Status("found", Len(alts), NoPct)
    /\ isLoadingALTs' = FALSE
    /\ fetch' = IdleFetch

\* getProgramAccounts resolves or rejects
FetchAccounts ==
    /\ fetch.pc = "accounts"
    /\ \/ /\ status' = Status("queryFailed", 0, NoPct)
          /\ isLoadingALTs' = FALSE
          /\ fetch' = IdleFetch
          /\ UNCHANGED <<userALTs, cards>>
       \/ \E accts \in Orders(Listed) :
             IF Listed = {}
             THEN FetchDone(<<>>)
             ELSE /\ fetch' = [fetch EXCEPT !.pc = "lookup", !.accounts = accts]
                  /\ UNCHANGED <<userALTs, cards, status, isLoadingALTs>>
    /\ UNCHANGED <<ledger, started, refreshes, offManage>>

\* getAddressLookupTable of one account resolves or rejects; a table that
\* does not resolve is skipped
FetchLookup ==
    /\ fetch.pc = "lookup"
    /\ \E resolves \in BOOLEAN :
          LET t == fetch.accounts[fetch.i]
              alts == IF resolves /\ ledger[t].exists
                      THEN Append(fetch.alts, ALTData(t, ledger[t].addresses))
                      ELSE fetch.alts
          IN  IF fetch.i = Len(fetch.accounts)
              THEN FetchDone(alts)
              ELSE /\ fetch' = [fetch EXCEPT !.i = @ + 1, !.alts = alts]
                   /\ UNCHANGED <<userALTs, cards, status, isLoadingALTs>>
    /\ UNCHANGED <<ledger, started, refreshes, offManage>>

\* refreshALT is called: its lookup is sent
Pending(t) == [table |-> t, read |-> FALSE, exists |-> FALSE, addresses |-> <<>>]

\* click on the refresh icon of a card
RefreshALT(t) ==
    /\ Mounted(t)
    /\ InFlight < MaxInFlight
    /\ started < MaxStarted
    /\ started' = started + 1
    /\ refreshes' = refreshes \cup {Pending(t)}
    /\ UNCHANGED <<ledger, userALTs, isLoadingALTs, fetch, cards,
                   status, offManage>>

\* the node reads the account for a lookup it has received
RefreshRead ==
    \E r \in refreshes :
        /\ ~r.read
        /\ refreshes' = (refreshes \ {r}) \cup
               {[table |-> r.table, read |-> TRUE,
                 exists |-> Snapshot(r.table).exists,
                 addresses |-> Snapshot(r.table).addresses]}
        /\ UNCHANGED <<ledger, started, userALTs, isLoadingALTs, fetch, cards,
                       status, offManage>>

\* setUserALTs(prev => prev.map(...)) of refreshALT
Refreshed_Every(prev, t, addrs) ==
    [i \in 1 .. Len(prev) |-> [prev[i] EXCEPT !.addresses = addrs]]

Refreshed(prev, t, addrs) ==
    [i \in 1 .. Len(prev) |->
        IF prev[i].address = t THEN [prev[i] EXCEPT !.addresses = addrs]
        ELSE prev[i]]

\* the lookup of a refreshALT resolves
RefreshResolves ==
    \E r \in refreshes :
        /\ r.read
        /\ userALTs' = IF r.exists THEN Refreshed(userALTs, r.table, r.addresses)
                       ELSE userALTs
        /\ refreshes' = refreshes \ {r}
        /\ UNCHANGED <<ledger, started, isLoadingALTs, fetch, cards, status,
                       offManage>>

\* the lookup of a refreshALT rejects
RefreshRejects ==
    \E r \in refreshes :
        /\ status' = Status("refreshFailed", 0, NoPct)
        /\ refreshes' = refreshes \ {r}
        /\ UNCHANGED <<ledger, started, userALTs, isLoadingALTs, fetch, cards,
                       offManage>>

\* finally of addAddressesToALT and closeALT
CardFinally_NoReset(c) == [c EXCEPT !.handler = IdleHandler]

CardFinally(c) ==
    [c EXCEPT !.isLoading = IF c.handler.orphan THEN @ ELSE FALSE,
              !.handler = IdleHandler]

\* click on "添加": addAddressesToALT runs to the await of sendTransaction
AddAddressesToALT(t) ==
    /\ Mounted(t)
    /\ ~Disabled(cards[t].isLoading)
    /\ ~cards[t].handler.orphan
    /\ started < MaxStarted
    /\ InFlight < MaxInFlight
    /\ IF NotConnected(publicKey)
       THEN UNCHANGED <<cards, status, started>>
       ELSE LET n == cards[t].newAddressCount
                newAddresses == GenerateRandomAddresses(started + 1, n)
            IN  /\ cards' = [cards EXCEPT
                       ![t].isLoading = TRUE,
                       ![t].handler =
                           [pc |-> "extendSend",
                            instructions |->
                                <<ExtendInstruction(t, publicKey, newAddresses)>>,
                            count |-> n, orphan |-> FALSE]]
                /\ status' = Status("adding", n, NoPct)
                /\ started' = started + 1
    /\ UNCHANGED <<ledger, userALTs, isLoadingALTs, fetch, refreshes, offManage>>

\* click on "关闭 ALT": window.confirm, then closeALT runs to the await of
\* sendTransaction
CloseALT(t) ==
    /\ Mounted(t)
    /\ ~Disabled(cards[t].isLoading)
    /\ ~cards[t].handler.orphan
    /\ InFlight < MaxInFlight
    /\ started < MaxStarted
    /\ \E confirmed \in BOOLEAN :
          IF ~NotConnected(publicKey) /\ confirmed
          THEN /\ cards' = [cards EXCEPT
                      ![t].isLoading = TRUE,
                      ![t].handler =
                          [pc |-> "closeSend",
                           instructions |-> CloseInstructions(t, publicKey),
                           count |-> 0, orphan |-> FALSE]]
               /\ status' = Status("closing", 0, NoPct)
               /\ started' = started + 1
          ELSE UNCHANGED <<cards, status, started>>
    /\ UNCHANGED <<ledger, userALTs, isLoadingALTs, fetch, refreshes,
                   offManage>>

\* sendTransaction of a card's handler resolves with a signature or rejects
CardSend(t, here, next, failure) ==
    /\ cards[t].handler.pc = here
    /\ \E resolves \in BOOLEAN :
          IF resolves
          THEN /\ cards' = [cards EXCEPT ![t].handler.pc = next]
               /\ UNCHANGED status
          ELSE /\ cards' = [cards EXCEPT ![t] = CardFinally(@)]
               /\ status' = Status(failure, 0, NoPct)
    /\ UNCHANGED <<ledger, started, userALTs, isLoadingALTs, fetch, refreshes,
                   offManage>>

\* confirmTransaction of a card's handler resolves or rejects; when it
\* resolves the success status is set and onRefresh is called
CardConfirm(t, here, success, failure) ==
    /\ cards[t].handler.pc = here
    /\ \E o \in Confirmations(cards[t].handler.instructions, ledger[t]) :
          /\ ledger' = IF o.landed
                       THEN [ledger EXCEPT ![t] =
                                RunTx(cards[t].handler.instructions, @).table]
                       ELSE ledger
          /\ IF o.resolves
             THEN /\ status' = Status(success, cards[t].handler.count, NoPct)
                  /\ refreshes' = refreshes \cup {Pending(t)}
             ELSE /\ status' = Status(failure, 0, NoPct)
                  /\ UNCHANGED refreshes
          /\ cards' = [cards EXCEPT ![t] = CardFinally(@)]
    /\ UNCHANGED <<started, userALTs, isLoadingALTs, fetch, offManage>>

ExtendSend(t) == CardSend(t, "extendSend", "extendConfirm", "addFailed")

ExtendConfirm(t) == CardConfirm(t, "extendConfirm", "added", "addFailed")

CloseSend(t) == CardSend(t, "closeSend", "closeConfirm", "closeFailed")

CloseConfirm(t) == CardConfirm(t, "closeConfirm", "closed", "closeFailed")

\* handleAddressSelection(address, checked)
HandleAddressSelection(selected, address, checked) ==
    IF checked THEN selected \cup {address} ELSE selected \ {address}

\* toggleSelectAll
ToggleSelectAll(selected, addresses) ==
    IF Cardinality(selected) = Len(addresses)
    THEN {}
    ELSE { ToBase58(addresses[i]) : i \in 1 .. Len(addresses) }

\* click on the checkbox of one listed address
CheckAddress(t) ==
    /\ Mounted(t)
    /\ \E i \in PickIndices \cap (1 .. Len(ViewOf(t))) :
          LET address == ToBase58(ViewOf(t)[i])
              checked == address \notin cards[t].selectedAddresses
          IN  cards' = [cards EXCEPT ![t].selectedAddresses =
                          HandleAddressSelection(@, address, checked)]
    /\ UNCHANGED <<ledger, started, userALTs, isLoadingALTs, fetch, refreshes,
                   status, offManage>>

\* click on "全选" / "取消全选"
ClickSelectAll(t) ==
    /\ Mounted(t)
    /\ cards' = [cards EXCEPT ![t].selectedAddresses =
                    ToggleSelectAll(@, ViewOf(t))]
    /\ UNCHANGED <<ledger, started, userALTs, isLoadingALTs, fetch, refreshes,
                   status, offManage>>

\* finally of the two sends of a selector
SelFinally(c) ==
    [c EXCEPT !.selLoading = IF c.send.orphan THEN @ ELSE FALSE,
              !.send = IdleSend]

\* catch and finally of the two sends of a selector
SelFails(t, failure) ==
    /\ LET c == cards[t]
           shown == IF c.send.orphan THEN c.selError ELSE failure
       IN  cards' = [cards EXCEPT
                        ![t] = SelFinally([c EXCEPT !.selError = shown])]
    /\ status' = Status(failure, 0, NoPct)

\* click on "发送 ALT 交易": sendSelectedAddressALTTransaction runs to the
\* await of getAddressLookupTable
SendSelectedAddressALTTransaction(t) ==
    /\ Mounted(t)
    /\ ~Disabled(cards[t].selLoading)
    /\ ~cards[t].send.orphan
    /\ cards[t].selectedAddresses # {}
    /\ InFlight < MaxInFlight
    /\ started < MaxStarted
    /\ IF NotConnected(publicKey)
       THEN UNCHANGED <<started, cards, status>>
       ELSE /\ started' = started + 1
            /\ cards' = [cards EXCEPT
                   ![t].selLoading = TRUE,
                   ![t].selError = NULL,
                   ![t].send = [IdleSend EXCEPT
                                   !.pc = "altLookup",
                                   !.selected = cards[t].selectedAddresses]]
            /\ status' = Status("sendingSelectedALT", 0, NoPct)
    /\ UNCHANGED <<ledger, userALTs, isLoadingALTs, fetch, refreshes,
                   offManage>>

\* getAddressLookupTable(altAddress) resolves or rejects; no value throws
SelectedALTLookup(t) ==
    /\ cards[t].send.pc = "altLookup"
    /\ \E resolves \in BOOLEAN :
          IF resolves /\ ledger[t].exists
          THEN /\ cards' = [cards EXCEPT
                      ![t].send.pc = "altBlockhash",
                      ![t].send.table = ledger[t].addresses]
               /\ UNCHANGED status
          ELSE SelFails(t, "selectedALTFailed")
    /\ UNCHANGED <<ledger, started, userALTs, isLoadingALTs, fetch, refreshes,
                   offManage>>

\* getLatestBlockhash resolves, the message is compiled against the table
\* that was looked up, and sendTransaction is awaited; or it rejects
SelectedALTBlockhash(t) ==
    /\ cards[t].send.pc = "altBlockhash"
    /\ \E resolves \in BOOLEAN :
          IF resolves
          THEN /\ cards' = [cards EXCEPT ![t].send.pc = "altSend",
                                         ![t].send.compiled = TRUE]
               /\ UNCHANGED status
          ELSE SelFails(t, "selectedALTFailed")
    /\ UNCHANGED <<ledger, started, userALTs, isLoadingALTs, fetch, refreshes,
                   offManage>>

\* click on "发送常规交易": sendSelectedAddressNormalTransaction runs to the
\* await of getLatestBlockhash
SendSelectedAddressNormalTransaction(t) ==
    /\ Mounted(t)
    /\ ~Disabled(cards[t].selLoading)
    /\ ~cards[t].send.orphan
    /\ cards[t].selectedAddresses # {}
    /\ InFlight < MaxInFlight
    /\ started < MaxStarted
    /\ IF NotConnected(publicKey)
       THEN UNCHANGED <<started, cards, status>>
       ELSE /\ started' = started + 1
            /\ cards' = [cards EXCEPT
                   ![t].selLoading = TRUE,
                   ![t].selError = NULL,
                   ![t].send = [IdleSend EXCEPT
                                   !.pc = "normalBlockhash",
                                   !.selected = cards[t].selectedAddresses]]
            /\ status' = Status("sendingSelectedNormal", 0, NoPct)
    /\ UNCHANGED <<ledger, userALTs, isLoadingALTs, fetch, refreshes,
                   offManage>>

\* an awaited call of a selector's send resolves or rejects
SelectedStep(t, here, next, failure) ==
    /\ cards[t].send.pc = here
    /\ \E resolves \in BOOLEAN :
          IF resolves
          THEN /\ cards' = [cards EXCEPT ![t].send.pc = next]
               /\ UNCHANGED status
          ELSE SelFails(t, failure)
    /\ UNCHANGED <<ledger, started, userALTs, isLoadingALTs, fetch, refreshes,
                   offManage>>

\* confirmTransaction of a selector's send resolves or rejects
SelectedConfirm(t, here, success, failure) ==
    /\ cards[t].send.pc = here
    /\ \E resolves \in BOOLEAN :
          IF resolves
          THEN /\ status' = Status(success,
                                   Cardinality(cards[t].send.selected), NoPct)
               /\ cards' = [cards EXCEPT ![t] = SelFinally(@)]
          ELSE SelFails(t, failure)
    /\ UNCHANGED <<ledger, started, userALTs, isLoadingALTs, fetch, refreshes,
                   offManage>>

SelectedALTSend(t) ==
    SelectedStep(t, "altSend", "altConfirm", "selectedALTFailed")

SelectedALTConfirm(t) ==
    SelectedConfirm(t, "altConfirm", "selectedALTSent", "selectedALTFailed")

SelectedNormalBlockhash(t) ==
    SelectedStep(t, "normalBlockhash", "normalSend", "selectedNormalFailed")

SelectedNormalSend(t) ==
    SelectedStep(t, "normalSend", "normalConfirm", "selectedNormalFailed")

SelectedNormalConfirm(t) ==
    SelectedConfirm(t, "normalConfirm", "selectedNormalSent",
                    "selectedNormalFailed")

NextManage ==
    \/ WalletConnect
    \/ WalletDisconnect
    \/ FetchUserALTs
    \/ FetchAccounts
    \/ FetchLookup
    \/ RefreshRead
    \/ RefreshResolves
    \/ RefreshRejects
    \/ \E t \in TableIds :
          \/ RefreshALT(t)
          \/ AddAddressesToALT(t)
          \/ ExtendSend(t)
          \/ ExtendConfirm(t)
          \/ CloseALT(t)
          \/ CloseSend(t)
          \/ CloseConfirm(t)
          \/ CheckAddress(t)
          \/ ClickSelectAll(t)
          \/ SendSelectedAddressALTTransaction(t)
          \/ SelectedALTLookup(t)
          \/ SelectedALTBlockhash(t)
          \/ SelectedALTSend(t)
          \/ SelectedALTConfirm(t)
          \/ SendSelectedAddressNormalTransaction(t)
          \/ SelectedNormalBlockhash(t)
          \/ SelectedNormalSend(t)
          \/ SelectedNormalConfirm(t)

SpecManage == InitManage /\ [][NextManage]_vars

----------------------------------------------------------------------------
(* The "compare" tab: CompareTransactions *)

\* what the "compare" tab never touches
offFees == <<tab, limitVars, manageVars, publicKey, create>>

InitFees ==
    /\ tab = "compare"
    /\ LimitsIdle
    /\ ManageIdle
    /\ publicKey = NULL
    /\ status = Status("", 0, NoPct)
    /\ fees = IdleFees
    /\ create = IdleCreate

\* positions of altAddresses the transfers of sendALTTransaction go to
FeeDestinations_NoClamp(len) == 1 .. FeeTransfers

FeeDestinations(len) == 1 .. Min(FeeTransfers, len)

\* catch and finally of sendNormalTransaction and sendALTTransaction
FeeFails(failure) ==
    /\ fees' = [fees EXCEPT !.isLoading = FALSE, !.pc = "idle"]
    /\ status' = Status(failure, 0, NoPct)

\* an awaited call of one of the two sends resolves or rejects
FeeStep(here, next, failure) ==
    /\ fees.pc = here
    /\ \E resolves \in BOOLEAN :
          IF resolves
          THEN /\ fees' = [fees EXCEPT !.pc = next]
               /\ UNCHANGED status
          ELSE FeeFails(failure)
    /\ UNCHANGED offFees

\* click on "发送普通交易": sendNormalTransaction runs to the await of
\* getLatestBlockhash
SendNormalTransaction ==
    /\ tab = "compare"
    /\ ~Disabled(fees.isLoading)
    /\ IF NotConnected(publicKey)
       THEN UNCHANGED <<fees, status>>
       ELSE /\ fees' = [fees EXCEPT !.isLoading = TRUE,
                                    !.pc = "normalBlockhash"]
            /\ status' = Status("sendingNormal", 0, NoPct)
    /\ UNCHANGED offFees

NormalBlockhash == FeeStep("normalBlockhash", "normalFee", "normalFailed")

\* getFeeForMessage resolves with a quote, which is stored, or rejects
NormalFee ==
    /\ fees.pc = "normalFee"
    /\ \/ \E fee \in FeeValues :
             /\ fees' = [fees EXCEPT !.normalTxFee = fee, !.pc = "normalSend"]
             /\ UNCHANGED status
       \/ FeeFails("normalFailed")
    /\ UNCHANGED offFees

\* sendTransaction resolves with the signature or rejects
NormalSend_StoresSignature ==
    /\ fees.pc = "normalSend"
    /\ \/ /\ fees' = [fees EXCEPT !.normalTxSignature = "signature",
                                  !.pc = "normalConfirm"]
          /\ UNCHANGED status
       \/ FeeFails("normalFailed")
    /\ UNCHANGED offFees

NormalSend == FeeStep("normalSend", "normalConfirm", "normalFailed")

\* confirmTransaction resolves, the signature is stored; or it rejects
NormalConfirm ==
    /\ fees.pc = "normalConfirm"
    /\ \/ /\ fees' = [fees EXCEPT !.normalTxSignature = "signature",
                                  !.isLoading = FALSE, !.pc = "idle"]
          /\ status' = Status("normalSent", 0, NoPct)
       \/ FeeFails("normalFailed")
    /\ UNCHANGED offFees

\* click on "发送 ALT 交易": sendALTTransaction runs to the await of getSlot
SendALTTransaction ==
    /\ tab = "compare"
    /\ ~Disabled(fees.isLoading)
    /\ IF NotConnected(publicKey)
       THEN UNCHANGED <<fees, status>>
       ELSE /\ fees' = [fees EXCEPT !.isLoading = TRUE, !.pc = "altGetSlot",
                                    !.tableLen = 0, !.destinations = {},
                                    !.compiled = FALSE]
            /\ status' = Status("sendingALT", 0, NoPct)
    /\ UNCHANGED offFees

FeeGetSlot == FeeStep("altGetSlot", "altCreateSend", "altFailed")

FeeCreateSend == FeeStep("altCreateSend", "altCreateConfirm", "altFailed")

FeeCreateConfirm == FeeStep("altCreateConfirm", "altWait", "altFailed")

\* the timer of one second fires
FeeWait ==
    /\ fees.pc = "altWait"
    /\ fees' = [fees EXCEPT !.pc = "altLookup"]
    /\ UNCHANGED <<status, offFees>>

\* getAddressLookupTable resolves with the table, whose first addresses
\* become the destinations, or with no value, which throws, or rejects
FeeLookup ==
    /\ fees.pc = "altLookup"
    /\ \/ \E len \in FeeTableLens :
             /\ fees' = [fees EXCEPT !.tableLen = len,
                                     !.destinations = FeeDestinations(len),
                                     !.pc = "altBlockhash"]
             /\ UNCHANGED status
       \/ FeeFails("altFailed")
    /\ UNCHANGED offFees

\* getLatestBlockhash resolves and the message is compiled against the
\* table; or it rejects
FeeBlockhash ==
    /\ fees.pc = "altBlockhash"
    /\ \/ /\ fees' = [fees EXCEPT !.compiled = TRUE, !.pc = "altFee"]
          /\ UNCHANGED status
       \/ FeeFails("altFailed")
    /\ UNCHANGED offFees

FeeQuote ==
    /\ fees.pc = "altFee"
    /\ \/ \E fee \in FeeValues :
             /\ fees' = [fees EXCEPT !.altTxFee = fee, !.pc = "altSend"]
             /\ UNCHANGED status
       \/ FeeFails("altFailed")
    /\ UNCHANGED offFees

FeeSend == FeeStep("altSend", "altConfirm", "altFailed")

FeeConfirm ==
    /\ fees.pc = "altConfirm"
    /\ \/ /\ fees' = [fees EXCEPT !.altTxSignature = "signature",
                                  !.isLoading = FALSE, !.pc = "idle"]
          /\ status' = Status("altSent", 0, NoPct)
       \/ FeeFails("altFailed")
    /\ UNCHANGED offFees

NextFees ==
    \/ WalletConnect
    \/ WalletDisconnect
    \/ SendNormalTransaction
    \/ NormalBlockhash
    \/ NormalFee
    \/ NormalSend
    \/ NormalConfirm
    \/ SendALTTransaction
    \/ FeeGetSlot
    \/ FeeCreateSend
    \/ FeeCreateConfirm
    \/ FeeWait
    \/ FeeLookup
    \/ FeeBlockhash
    \/ FeeQuote
    \/ FeeSend
    \/ FeeConfirm

SpecFees == InitFees /\ [][NextFees]_vars

\* feeComparison: useMemo over the two recorded fees
NoComparison == [shown |-> FALSE, savings |-> 0, savingsPercentage |-> NoPct]

FeeComparison_Either(normalTxFee, altTxFee) ==
    IF normalTxFee # 0 \/ altTxFee # 0
    THEN LET savings == normalTxFee - altTxFee IN
         [shown |-> TRUE, savings |-> savings,
          savingsPercentage |-> ToFixed1(savings, normalTxFee)]
    ELSE NoComparison

FeeComparison(normalTxFee, altTxFee) ==
    IF normalTxFee # 0 /\ altTxFee # 0
    THEN LET savings == normalTxFee - altTxFee IN
         [shown |-> TRUE, savings |-> savings,
          savingsPercentage |-> ToFixed1(savings, normalTxFee)]
    ELSE NoComparison

----------------------------------------------------------------------------
(* The "create" tab: CreateALT *)

\* what the "create" tab never touches
offCreate == <<tab, limitVars, fees, publicKey, started, userALTs,
               isLoadingALTs, fetch, cards, refreshes>>

InitCreate ==
    /\ tab = "create"
    /\ LimitsIdle
    /\ ManageIdle
    /\ publicKey = NULL
    /\ status = Status("", 0, NoPct)
    /\ fees = IdleFees
    /\ create = IdleCreate

\* the user types another number of addresses
SetAddressCount ==
    /\ tab = "create"
    /\ \E n \in CreateCounts : create' = [create EXCEPT !.addressCount = n]
    /\ UNCHANGED <<ledger, status, offCreate>>

\* catch and finally of createAddressLookupTable
CreateFails ==
    /\ create' = [create EXCEPT !.isLoading = FALSE, !.pc = "idle"]
    /\ status' = Status("createFailed", 0, NoPct)
    /\ UNCHANGED ledger

\* click on the button: createAddressLookupTable runs to the await of getSlot
CreateAddressLookupTable ==
    /\ tab = "create"
    /\ ~Disabled(create.isLoading)
    /\ IF NotConnected(publicKey)
       THEN UNCHANGED <<create, status>>
       ELSE /\ create' = [create EXCEPT !.isLoading = TRUE, !.pc = "getSlot",
                                        !.count = create.addressCount,
                                        !.lookupTableAddress = NULL,
                                        !.instructions = <<>>]
            /\ status' = Status("creating", 0, NoPct)
    /\ UNCHANGED <<ledger, offCreate>>

\* getSlot resolves, the two instructions are built and sendTransaction is
\* awaited; or it rejects
CreateGetSlot ==
    /\ create.pc = "getSlot"
    /\ \/ \E recentSlot \in TableIds :
             LET made == CreateLookupTable(publicKey, recentSlot)
                 addresses == GenerateRandomAddresses(0, create.count)
             IN  /\ create' = [create EXCEPT
                        !.pc = "send",
                        !.lookupTableAddress = made.lookupTableAddress,
                        !.instructions =
                            <<made.lookupTableInst,
                              ExtendInstruction(made.lookupTableAddress,
                                                publicKey, addresses)>>]
                 /\ UNCHANGED <<status, ledger>>
       \/ CreateFails
    /\ UNCHANGED offCreate

\* sendTransaction resolves with a signature or rejects
CreateSend ==
    /\ create.pc = "send"
    /\ \/ /\ create' = [create EXCEPT !.pc = "confirm"]
          /\ UNCHANGED <<status, ledger>>
       \/ CreateFails
    /\ UNCHANGED offCreate

\* confirmTransaction resolves, the address of the table is stored; or it
\* rejects
CreateConfirm ==
    /\ create.pc = "confirm"
    /\ LET t == create.lookupTableAddress IN
       \E o \in Confirmations(create.instructions, ledger[t]) :
          /\ ledger' = IF o.landed
                       THEN [ledger EXCEPT ![t] =
                                RunTx(create.instructions, @).table]
                       ELSE ledger
          /\ IF o.resolves
             THEN /\ create' = [create EXCEPT !.altAddress = t,
                                              !.isLoading = FALSE,
                                              !.pc = "idle"]
                  /\ status' = Status("created", create.count, NoPct)
             ELSE /\ create' = [create EXCEPT !.isLoading = FALSE,
                                              !.pc = "idle"]
                  /\ status' = Status("createFailed", 0, NoPct)
    /\ UNCHANGED offCreate

NextCreate ==
    \/ WalletConnect
    \/ WalletDisconnect
    \/ SetAddressCount
    \/ CreateAddressLookupTable
    \/ CreateGetSlot
    \/ CreateSend
    \/ CreateConfirm

----------------------------------------------------------------------------
(* The page with any one of its tabs open *)

InitTabs == Init \/ InitManage \/ InitFees \/ InitCreate

NextTabs == Next \/ NextManage \/ NextFees \/ NextCreate

SpecTabs == InitTabs /\ [][NextTabs]_vars

----------------------------------------------------------------------------
(* The page when every awaited call comes back: the steps that follow an     *)
(* await of a handler form one process per handler, and a suspended handler  *)
(* is resumed when its promise settles.                                      *)

LimitSteps ==
    \/ NormalIter \/ AltGetSlot \/ AltSend \/ AltConfirm \/ AltWait
    \/ AltLookup \/ AltIter \/ SingleIter

FetchSteps == FetchAccounts \/ FetchLookup

CardSteps(t) ==
    ExtendSend(t) \/ ExtendConfirm(t) \/ CloseSend(t) \/ CloseConfirm(t)

SelectorSteps(t) ==
    \/ SelectedALTLookup(t) \/ SelectedALTBlockhash(t) \/ SelectedALTSend(t)
    \/ SelectedALTConfirm(t) \/ SelectedNormalBlockhash(t)
    \/ SelectedNormalSend(t) \/ SelectedNormalConfirm(t)

FeeSteps ==
    \/ NormalBlockhash \/ NormalFee \/ NormalSend \/ NormalConfirm
    \/ FeeGetSlot \/ FeeCreateSend \/ FeeCreateConfirm \/ FeeWait
    \/ FeeLookup \/ FeeBlockhash \/ FeeQuote \/ FeeSend \/ FeeConfirm

CreateSteps == CreateGetSlot \/ CreateSend \/ CreateConfirm

PromisesSettle ==
    /\ WF_vars(LimitSteps)
    /\ WF_vars(FetchSteps)
    /\ WF_vars(FeeSteps)
    /\ WF_vars(CreateSteps)
    /\ \A t \in TableIds : WF_vars(CardSteps(t)) /\ WF_vars(SelectorSteps(t))

\* one environment of each tab: the serializer of the documented sizes, and
\* a ledger on which the wallet has one table
InitLive ==
    \/ Init /\ sizer = [hdr |-> 101, perOp |-> 49, tblOverhead |-> 36,
                        tblPerOp |-> 18]
    \/ InitManage /\ ~ledger["T2"].exists
    \/ InitFees
    \/ InitCreate

LiveTabs == InitLive /\ [][NextTabs]_vars /\ PromisesSettle

----------------------------------------------------------------------------
(* The components of the page and the two probes, each taken on its own *)

SpecUnits == (InitTabs \/ InitPure) /\ [][NextTabs \/ NextPure]_vars

----------------------------------------------------------------------------
(* Vocabulary of the properties *)

\* a sizing attempt that produced a message within the ceiling
Fits(e) == e.ok /\ e.size <= ByteCeiling

AllFit(p) == \A i \in 1 .. Len(p.sized) : Fits(p.sized[i])

\* the bound of the table-indexed loop for the table that was resolved
AltBound == IF altProbe.tableLen < 0 THEN 0 ELSE Min(AltMaxCount, altProbe.tableLen)

\* each probe with the bound of its loop, the length of the pool its
\* iterations index, and the error kind of an oversize message
ProbeViews ==
    { [p |-> normalProbe, limit |-> NormalMaxCount, pool |-> NormalPoolSize,
       kind |-> "sizeExceeded", stored |-> normalTestResult],
      [p |-> altProbe, limit |-> AltBound, pool |-> altProbe.tableLen,
       kind |-> "altSizeExceeded", stored |-> altTestResult],
      [p |-> singleProbe, limit |-> SingleMaxCount, pool |-> SinglePoolSize,
       kind |-> "sizeExceeded", stored |-> addressLimitTest] }

ComparedViews == { v \in ProbeViews : v.p \in {normalProbe, altProbe} }

\* what the component renders from its two stored results
RenderedComparison == RenderOf(normalTestResult, altTestResult)

\* the table-indexed probe of the current run is under way: the inline
\* result stored is of this run, the table-indexed result stored is not
AltUnderWay == normalProbe.state = "returned" /\ altProbe.state = "running"

\* the result a probe's own history of sizing attempts determines
FromHistory(p, kind) ==
    LET n == Len(p.sized)
        fits == Cardinality({ i \in 1 .. n : Fits(p.sized[i]) }) IN
    IF p.setupFailed THEN TestResult(0, p.error)
    ELSE IF n = 0 \/ Fits(p.sized[n]) THEN TestResult(fits, NoError)
    ELSE IF p.sized[n].ok THEN TestResult(fits, Exceeds(kind, p.sized[n].size))
    ELSE TestResult(fits, Thrown(p.sized[n].msg))

\* the run has ended and both probes of it have returned
RunComplete ==
    /\ pc = "idle"
    /\ normalProbe.state = "returned"
    /\ altProbe.state = "returned"

----------------------------------------------------------------------------
(* C1: in the inline and the table-indexed probe the counts are sized in the
   order 1, 2, 3, ... without gaps, nothing is sized after the first count
   that fails, a result with a limiting error of the loop has maxAddresses
   equal to the failing count minus one, and the counts that fit are exactly
   1 .. maxAddresses. *)
C1_PrefixScan ==
    \A v \in ComparedViews :
        LET p == v.p
            n == Len(p.sized) IN
        /\ \A i \in 1 .. n : p.sized[i].count = i
        /\ \A i \in 1 .. n - 1 : Fits(p.sized[i])
        /\ { p.sized[i].count : i \in { j \in 1 .. n : Fits(p.sized[j]) } }
             = 1 .. p.maxAddresses
        /\ (p.state = "returned" /\ p.error # NoError /\ ~p.setupFailed)
             => /\ n >= 1
                /\ ~Fits(p.sized[n])
                /\ p.maxAddresses = p.sized[n].count - 1
        /\ (p.state = "returned" /\ p.setupFailed)
             => (n = 0 /\ p.maxAddresses = 0)

C1_Witness ==
    /\ RunComplete
    /\ normalProbe.error.kind = "sizeExceeded"
    /\ normalProbe.maxAddresses = 23
    /\ altProbe.error.kind = RpcError
    /\ ~altProbe.setupFailed
    /\ altProbe.maxAddresses = 1

(* C2: a sizing attempt whose message is larger than the ceiling is the last
   attempt of its probe: the probe has returned with the size-exceeded error
   carrying that size and with maxAddresses equal to that count minus one. *)
C2_StopsAboveCeiling ==
    \A v \in ProbeViews :
        \A i \in 1 .. Len(v.p.sized) :
            LET e == v.p.sized[i] IN
            (e.ok /\ e.size > ByteCeiling)
              => /\ i = Len(v.p.sized)
                 /\ v.p.state = "returned"
                 /\ v.p.error = Exceeds(v.kind, e.size)
                 /\ v.p.maxAddresses = e.count - 1
                 /\ v.stored = TestResult(e.count - 1, Exceeds(v.kind, e.size))

C2_Witness ==
    /\ altProbe.state = "returned"
    /\ altProbe.error = Exceeds("altSizeExceeded", 1235)
    /\ altProbe.maxAddresses = 60
    /\ Len(altProbe.sized) = 61

(* C3: a sizing attempt that throws is the last attempt of its probe: the
   probe has returned a result whose error is the thrown message and whose
   maxAddresses is that count minus one, and the handler has stored it. *)
C3_ThrowIsCaptured ==
    \A v \in ProbeViews :
        \A i \in 1 .. Len(v.p.sized) :
            LET e == v.p.sized[i] IN
            ~e.ok
              => /\ i = Len(v.p.sized)
                 /\ v.p.state = "returned"
                 /\ v.p.error = Thrown(e.msg)
                 /\ v.p.maxAddresses = e.count - 1
                 /\ v.stored = TestResult(e.count - 1, Thrown(e.msg))

C3_Witness ==
    /\ normalProbe.state = "returned"
    /\ normalProbe.error = Thrown(EncodingError)
    /\ normalProbe.maxAddresses = 1
    /\ pc = "altGetSlot"

(* C4: a message of exactly the ceiling size fits: the count it was sized at
   is counted, and when the next count exceeds the ceiling the probe reports
   exactly that count. *)
C4_CeilingBoundary ==
    \A v \in ProbeViews :
        \A k \in 1 .. Len(v.p.sized) :
            (v.p.sized[k].ok /\ v.p.sized[k].size = ByteCeiling)
              => /\ v.p.maxAddresses >= k
                 /\ (/\ k + 1 <= Len(v.p.sized)
                     /\ v.p.sized[k + 1].ok
                     /\ v.p.sized[k + 1].size > ByteCeiling)
                      => (v.p.state = "returned" /\ v.p.maxAddresses = k)

C4_Witness ==
    /\ normalProbe.state = "returned"
    /\ Len(normalProbe.sized) = 31
    /\ normalProbe.sized[30].size = ByteCeiling
    /\ normalProbe.sized[31].size > ByteCeiling
    /\ normalProbe.maxAddresses = 30

(* C5: a probe makes at most as many sizing attempts as the bound of its
   loop; it returns either at the first failing count or after the bound,
   and then with maxAddresses equal to the bound and no error. *)
C5_BoundedAttempts ==
    \A v \in ProbeViews :
        /\ Len(v.p.sized) <= v.limit
        /\ v.p.state = "returned"
             => \/ /\ v.p.error = NoError
                   /\ Len(v.p.sized) = v.limit
                   /\ v.p.maxAddresses = v.limit
                   /\ AllFit(v.p)
                \/ /\ v.p.error # NoError
                   /\ \/ v.p.setupFailed
                      \/ /\ Len(v.p.sized) >= 1
                         /\ ~Fits(v.p.sized[Len(v.p.sized)])

C5_Witness ==
    /\ RunComplete
    /\ normalProbe.error = NoError
    /\ normalProbe.maxAddresses = NormalMaxCount
    /\ altProbe.error = NoError
    /\ altProbe.maxAddresses = AltMaxCount

(* C6: when the resolved table has no addresses the table-indexed probe
   returns maxAddresses 0 with no error and has sized nothing. *)
C6_EmptyTable ==
    altProbe.tableLen = 0
      => /\ altProbe.sized = <<>>
         /\ altProbe.state = "returned"
         /\ ResultOf(altProbe) = TestResult(0, NoError)
         /\ altTestResult = TestResult(0, NoError)

C6_Witness ==
    /\ altProbe.tableLen = 0
    /\ altProbe.state = "returned"
    /\ normalProbe.maxAddresses > 0

(* C7 as claimed: a table-indexed probe whose table has fewer addresses than
   the 256 the loop would try, and whose attempts all fit, fails with an
   insufficient-pool error. *)
C7_InsufficientPoolIsFatal ==
    (/\ altProbe.state = "returned"
     /\ altProbe.tableLen > 0
     /\ altProbe.tableLen < AltMaxCount
     /\ AllFit(altProbe))
      => altProbe.error.kind = "insufficientPool"

(* C7 as amended: no iteration of a probe reads a pool position at or beyond
   the pool's length, and a table-indexed probe whose table is shorter than
   256 and whose attempts all fit returns the table's length with no error:
   it probes the smaller range. *)
C7_ReadsWithinPool ==
    /\ \A v \in ProbeViews :
         \A i \in 1 .. Len(v.p.sized) : v.p.sized[i].count - 1 < v.pool
    /\ (/\ altProbe.state = "returned"
        /\ altProbe.tableLen >= 0
        /\ altProbe.tableLen < AltMaxCount
        /\ AllFit(altProbe))
         => ResultOf(altProbe) = TestResult(altProbe.tableLen, NoError)

C7_Witness ==
    /\ altProbe.state = "returned"
    /\ altProbe.tableLen = 100
    /\ Len(altProbe.sized) = 100
    /\ ResultOf(altProbe) = TestResult(100, NoError)

(* C8: for the same serializer, mode, loop bound and failing count, the scan
   under a ceiling c1 returns no more than the scan under a ceiling c2 >= c1. *)
C8_MonotoneInCeiling ==
    (pure.state = "applied" /\ pure.c1 <= pure.c2)
      => pure.r1.maxAddresses <= pure.r2.maxAddresses

C8_Witness ==
    /\ pure.state = "applied"
    /\ pure.c1 < pure.c2
    /\ pure.r1.maxAddresses > 0
    /\ pure.r1.maxAddresses < pure.r2.maxAddresses

(* C9 as claimed: at the end of a run in which no sizing attempt threw and
   the table, if resolved, has at least as many addresses as the inline
   pool, the table-indexed result is no smaller than the inline result, also
   when a setup step of the temporary table failed. *)
C9_TableNeverWorse ==
    (/\ RunComplete
     /\ \A i \in 1 .. Len(normalProbe.sized) : normalProbe.sized[i].ok
     /\ \A i \in 1 .. Len(altProbe.sized) : altProbe.sized[i].ok
     /\ altProbe.setupFailed \/ altProbe.tableLen >= NormalPoolSize)
      => altTestResult.maxAddresses >= normalTestResult.maxAddresses

(* C10: when no sizing attempt throws, a probe returns the smaller of its
   loop bound and floor((ceiling - header - table overhead) / per-operation
   cost); with header 100 that is 28 inline at 40 bytes per operation, and
   with overhead 35 at 9 bytes per operation 121 table-indexed, or 100 with
   no error when the table has 100 addresses. *)
C10_AffineMaximum ==
    /\ (normalProbe.state = "returned" /\ \A i \in 1 .. Len(normalProbe.sized) : normalProbe.sized[i].ok)
         => /\ normalProbe.maxAddresses =
                 Min(NormalMaxCount, (ByteCeiling - sizer.hdr) \div sizer.perOp)
            /\ (sizer.hdr = 100 /\ sizer.perOp = 40) => normalProbe.maxAddresses = 28
    /\ (/\ altProbe.state = "returned"
        /\ ~altProbe.setupFailed
        /\ \A i \in 1 .. Len(altProbe.sized) : altProbe.sized[i].ok)
         => /\ altProbe.maxAddresses =
                 Min(Min(AltMaxCount, altProbe.tableLen),
                     (ByteCeiling - sizer.hdr - sizer.tblOverhead) \div sizer.tblPerOp)
            /\ (sizer.hdr = 100 /\ sizer.tblOverhead = 35 /\ sizer.tblPerOp = 9)
                 => /\ altProbe.tableLen = 256 => altProbe.maxAddresses = 121
                    /\ altProbe.tableLen = 100
                         => ResultOf(altProbe) = TestResult(100, NoError)

C10_Witness ==
    /\ RunComplete
    /\ sizer.hdr = 100 /\ sizer.perOp = 40
    /\ normalTestResult.maxAddresses = 28
    /\ altProbe.tableLen = 256
    /\ altTestResult.maxAddresses = 121

(* C11: a failure while probing never leaves a probe as an exception: no
   handler reports a failed test, every probe that has ended has returned,
   its result is stored, and the result carries the number of counts that
   fitted before the failure (0 when the setup of the temporary table
   failed). *)
C11_FailureIsAResult ==
    /\ status.kind # "testFailed"
    /\ \A v \in ProbeViews :
         /\ v.p.state # "threw"
         /\ (v.p.state = "returned" /\ v.p.error # NoError)
              => /\ v.stored = ResultOf(v.p)
                 /\ v.p.maxAddresses =
                      Cardinality({ i \in 1 .. Len(v.p.sized) : Fits(v.p.sized[i]) })
    /\ (pc = "idle" /\ normalProbe.state = "returned") => altProbe.state = "returned"

C11_Witness ==
    /\ RunComplete
    /\ normalTestResult = TestResult(1, Thrown(RpcError))
    /\ altProbe.setupFailed
    /\ altTestResult = TestResult(0, Thrown(NotFoundError))
    /\ status.kind = "done"

(* C12: the improvement in the status message is the table-indexed result
   minus the inline result of the run that reported it, and at the end of a
   run the rendered comparison shows the same difference. *)
C12_DeltaIsDifference ==
    /\ status.kind = "improvement"
         => /\ RunComplete
            /\ status.n = altProbe.maxAddresses - normalProbe.maxAddresses
    /\ (RunComplete /\ RenderedComparison.shown)
         => /\ RenderedComparison.delta
                 = altProbe.maxAddresses - normalProbe.maxAddresses
            /\ status.kind = "improvement"
            /\ status.n = RenderedComparison.delta

C12_Witness ==
    /\ RunComplete
    /\ normalProbe.maxAddresses = 23
    /\ altProbe.maxAddresses = 60
    /\ status.kind = "improvement"
    /\ status.n = 37
    /\ RenderedComparison.delta = 37

(* C13: no percentage is ever computed with an inline result of 0: neither
   the status nor the rendered comparison carries Infinity or NaN, and a run
   whose inline result is 0 ends with the plain completion status and no
   rendered comparison. *)
C13_NoZeroDivisor ==
    /\ status.pct.kind \in {"none", "number"}
    /\ RenderedComparison.pct.kind \in {"none", "number"}
    /\ status.kind = "improvement" => normalProbe.maxAddresses > 0
    /\ RenderedComparison.shown => normalTestResult.maxAddresses > 0
    /\ (RunComplete /\ normalProbe.maxAddresses = 0)
         => /\ status = Status("done", 0, NoPct)
            /\ ~RenderedComparison.shown

C13_Witness ==
    /\ RunComplete
    /\ normalTestResult.maxAddresses = 0
    /\ altTestResult.maxAddresses = 60
    /\ status = Status("done", 0, NoPct)

(* C14: a result with a non-zero maximum compared with itself gives the
   improvement 0 and the percentage 0.0, in the status and in the rendered
   comparison. *)
C14_SelfComparison ==
    (pure.state = "applied" /\ pure.r1.maxAddresses > 0)
      => /\ pure.selfStatus = Status("improvement", 0, Pct(0))
         /\ pure.selfRender = [shown |-> TRUE, delta |-> 0, pct |-> Pct(0)]

C14_Witness ==
    /\ pure.state = "applied"
    /\ pure.r1.maxAddresses = 121
    /\ pure.selfStatus.pct = Pct(0)

(* C15 as claimed: whenever a comparison is reported or rendered, it is not
   the case that the inline result stored is of the current run while the
   table-indexed probe of that run has not yet returned. *)
C15_ComparisonAfterJoin ==
    (status.kind = "improvement" \/ RenderedComparison.shown) => ~AltUnderWay

(* C16: the two probes share no state.  A step of the inline probe leaves
   the stored table-indexed result alone and at most starts the
   table-indexed probe with fresh locals; a step of the table-indexed probe
   leaves the inline probe's locals and stored result alone; and what a
   probe returns is determined by its own sizing attempts only. *)
C16_Independent ==
    [][ /\ pc = "normal"
          => /\ altTestResult' = altTestResult
             /\ altProbe' \in {altProbe, [FreshProbe EXCEPT !.state = "running"]}
        /\ pc \in {"altGetSlot", "altSend", "altConfirm", "altWait",
                   "altLookup", "altLoop"}
          => /\ normalProbe' = normalProbe
             /\ normalTestResult' = normalTestResult
        /\ normalProbe'.state = "returned"
          => ResultOf(normalProbe') = FromHistory(normalProbe', "sizeExceeded")
        /\ altProbe'.state = "returned"
          => ResultOf(altProbe') = FromHistory(altProbe', "altSizeExceeded")
      ]_vars

C16_Witness ==
    /\ RunComplete
    /\ normalTestResult = TestResult(1, Thrown(EncodingError))
    /\ altTestResult = TestResult(0, NoError)
    /\ altProbe.tableLen = 0

----------------------------------------------------------------------------
(* Destinations of messages compiled against a lookup table *)

\* positions of altAddresses the transfers of the probe go to at one count
ProbeDestinations(count) == 1 .. count

\* the keys a selector's send transfers to, and the keys of the table it
\* compiled its message against
SelectedDestinations(t) == { PublicKeyOf(s) : s \in cards[t].send.selected }

CompiledAgainst(t) ==
    { cards[t].send.table[i] : i \in 1 .. Len(cards[t].send.table) }

\* C17: every destination of a message compiled against a lookup table is
\* an entry of that table: at every count of the table-indexed probe, in
\* every send of selected addresses, and in the ALT send of the fee
\* comparison.
C17_DestinationsInTable ==
    /\ \A i \in 1 .. Len(altProbe.sized) :
          ProbeDestinations(altProbe.sized[i].count) \subseteq
              1 .. altProbe.tableLen
    /\ \A t \in TableIds :
          cards[t].send.compiled => SelectedDestinations(t) \subseteq CompiledAgainst(t)
    /\ fees.compiled => fees.destinations \subseteq 1 .. fees.tableLen

\* a selector has compiled a message for a selection made on a list that is
\* older than the table it resolved
C17_Witness ==
    \E t \in TableIds :
        /\ cards[t].send.compiled
        /\ cards[t].send.selected # {}
        /\ Len(cards[t].send.table) > Len(ViewOf(t))

----------------------------------------------------------------------------
(* Lookup tables over time *)

IsPrefix(a, b) ==
    /\ Len(a) <= Len(b)
    /\ \A i \in 1 .. Len(a) : a[i] = b[i]

(* C18: a lookup table is append-only.  In every step that is not one of
   fetchUserALTs, so in every step of an extend, a close or a refresh, a
   table that is on the cluster before and after keeps each entry at its
   index, and so does the address list of a card that is shown before and
   after: entries are never lost and the count never decreases. *)
C18_AppendOnly ==
    [][ fetch' = fetch =>
          \A t \in TableIds :
              /\ ledger[t].exists /\ ledger'[t].exists
                    => IsPrefix(ledger[t].addresses, ledger'[t].addresses)
              /\ Mounted(t) /\ Mounted(t)'
                    => IsPrefix(ViewOf(t), ViewOf(t)')
      ]_vars

(* C19: closeALT destroys a table atomically.  Freeze and close travel in
   one transaction whose rent recipient is the connected wallet, so no
   table is ever left frozen on the cluster, and a step of closeALT's
   confirmation either leaves the table exactly as it was or removes it
   whole with the rent paid to the wallet. *)
C19_AtomicClose ==
    [][ \A t \in TableIds :
          /\ ledger'[t].exists => ~ledger'[t].frozen
          /\ cards[t].handler.pc \in {"closeSend", "closeConfirm"}
                /\ ledger'[t] # ledger[t]
                => /\ ~ledger'[t].exists
                   /\ ledger'[t].rentTo = Wallet
      ]_vars

\* closeALT has closed a table and reported it
C19_Witness ==
    \E t \in TableIds :
        /\ ~ledger[t].exists
        /\ ledger[t].rentTo = Wallet
        /\ status.kind = "closed"

----------------------------------------------------------------------------
(* C21: every handler that sets its component's loading flag resets it once
   its awaited calls have settled: while no handler of a component is
   suspended its flag is false, and a flag that is true becomes false again,
   whether the handler succeeds or fails. *)

FlagsAtRest ==
    /\ pc = "idle" => ~isLoading
    /\ fetch.pc = "idle" => ~isLoadingALTs
    /\ fees.pc = "idle" => ~fees.isLoading
    /\ create.pc = "idle" => ~create.isLoading
    /\ \A t \in TableIds :
          /\ cards[t].handler.pc = "idle" => ~cards[t].isLoading
          /\ cards[t].send.pc = "idle" => ~cards[t].selLoading

C21_FlagsReset ==
    /\ []FlagsAtRest
    /\ isLoading ~> ~isLoading
    /\ isLoadingALTs ~> ~isLoadingALTs
    /\ fees.isLoading ~> ~fees.isLoading
    /\ create.isLoading ~> ~create.isLoading
    /\ \A t \in TableIds :
          /\ cards[t].isLoading ~> ~cards[t].isLoading
          /\ cards[t].selLoading ~> ~cards[t].selLoading


\* closeALT has failed and the card's flag is false again
C21_Witness ==
    \E t \in TableIds :
        /\ Mounted(t)
        /\ status.kind = "closeFailed"
        /\ cards[t].handler.pc = "idle"
        /\ ~cards[t].isLoading

----------------------------------------------------------------------------
(* C22: operations that share one loading flag never overlap.  While a
   handler of the fee comparison, of a table card or of an address selector
   is suspended, the flag of its component is true; and a handler of such a
   component starts only when no handler of that component is suspended: the
   normal send and the ALT send of the fee comparison, extend and close of
   one card, the two sends of one selector. *)

FlagHeldWhileSuspended ==
    /\ fees.pc # "idle" => fees.isLoading
    /\ \A t \in TableIds :
          /\ cards[t].handler.pc # "idle" /\ ~cards[t].handler.orphan
                => cards[t].isLoading
          /\ cards[t].send.pc # "idle" /\ ~cards[t].send.orphan
                => cards[t].selLoading

C22_NoOverlap ==
    /\ []FlagHeldWhileSuspended
    /\ [][ /\ fees' # fees /\ fees'.pc \in {"normalBlockhash", "altGetSlot"}
                => fees.pc = "idle"
           /\ \A t \in TableIds :
                 /\ /\ cards'[t].handler # cards[t].handler
                    /\ cards'[t].handler.pc \in {"extendSend", "closeSend"}
                    /\ ~cards'[t].handler.orphan
                    => cards[t].handler.pc = "idle"
                 /\ /\ cards'[t].send # cards[t].send
                    /\ cards'[t].send.pc \in {"altLookup", "normalBlockhash"}
                    /\ ~cards'[t].send.orphan
                    => cards[t].send.pc = "idle" ]_vars

\* an extend has completed on a card whose close is now suspended, and the
\* trigger of both is disabled
C22_Witness ==
    \E t \in TableIds :
        /\ cards[t].handler.pc = "closeConfirm"
        /\ ~cards[t].handler.orphan
        /\ Disabled(cards[t].isLoading)
        /\ Len(ledger[t].addresses) > DefaultAddressCount

----------------------------------------------------------------------------
(* C23: with no wallet connected a handler that is invoked returns without
   effect.  Vocabulary: a step in which no handler leaves its resting
   position, no loading flag is raised, and, when nothing is suspended, the
   status, the stored results, the table list and the ledger stay as they
   are. *)

NoHandlerStarts ==
    /\ pc = "idle" => pc' = "idle"
    /\ fetch.pc = "idle" => fetch'.pc = "idle"
    /\ fees.pc = "idle" => fees'.pc = "idle"
    /\ create.pc = "idle" => create'.pc = "idle"
    /\ \A t \in TableIds :
          /\ cards[t].handler.pc = "idle" => cards'[t].handler.pc = "idle"
          /\ cards[t].send.pc = "idle" => cards'[t].send.pc = "idle"

NoFlagRaised ==
    /\ isLoading' => isLoading
    /\ isLoadingALTs' => isLoadingALTs
    /\ fees'.isLoading => fees.isLoading
    /\ create'.isLoading => create.isLoading
    /\ \A t \in TableIds :
          /\ cards'[t].isLoading => cards[t].isLoading
          /\ cards'[t].selLoading => cards[t].selLoading

AllAtRest ==
    /\ pc = "idle"
    /\ fetch.pc = "idle"
    /\ fees.pc = "idle"
    /\ create.pc = "idle"
    /\ \A t \in TableIds :
          cards[t].handler.pc = "idle" /\ cards[t].send.pc = "idle"
    /\ refreshes = {}

NothingStored ==
    /\ status' = status
    /\ normalTestResult' = normalTestResult
    /\ altTestResult' = altTestResult
    /\ addressLimitTest' = addressLimitTest
    /\ userALTs' = userALTs
    /\ fees' = fees
    /\ create'.altAddress = create.altAddress
    /\ ledger' = ledger

ProbesRefuse ==
    pure.state = "applied" /\ pure.key = NULL
        => /\ pure.r1 = TestResult(0, Thrown(WalletNotConnected))
           /\ pure.r2 = TestResult(0, Thrown(WalletNotConnected))

(* C23, as stated: with no wallet connected every handler returns without
   effect and no request is issued; the probes called on their own return 0
   addresses with the wallet-not-connected error. *)
C23_NoEffectWithoutWallet ==
    [][ /\ publicKey = NULL =>
              /\ NoHandlerStarts
              /\ NoFlagRaised
              /\ AllAtRest => NothingStored /\ refreshes' = refreshes
        /\ ProbesRefuse' ]_vars

(* C23, amended: with no wallet connected every handler that begins with the
   wallet check (probe run, normal and ALT send, create, extend, close,
   fetch, the two sends of selected addresses) returns without effect: no
   handler is suspended, no loading flag is raised, and status, stored
   results, table list and ledger are unchanged; refreshALT has no such check
   and still sends its lookup.  The probes called on their own return 0
   addresses with the wallet-not-connected error. *)
C23_GuardedHandlersReturn ==
    [][ /\ publicKey = NULL =>
              /\ NoHandlerStarts
              /\ NoFlagRaised
              /\ AllAtRest => NothingStored
        /\ ProbesRefuse' ]_vars

\* the wallet has gone after a query listed tables: every trigger of the
\* tab can be clicked and nothing is suspended
C23_Witness ==
    /\ publicKey = NULL
    /\ tab = "manage"
    /\ AllAtRest
    /\ status.kind = "found"
    /\ \E t \in TableIds : Mounted(t) /\ cards[t].selectedAddresses # {}

----------------------------------------------------------------------------
(* C24: when the lookup of a refreshALT settles, the table list keeps its
   entries and their order; every entry of another table is as it was just
   before, whatever other refresh settled earlier; the list is unchanged when
   the lookup found no table or was rejected (a rejection is seen by the
   failure status it sets); and when it resolved with a table, the entry of
   that table shows the addresses that were looked up. *)

C24_RefreshTouchesOneEntry ==
    [][ \A r \in refreshes :
          refreshes' = refreshes \ {r} =>
            /\ Len(userALTs') = Len(userALTs)
            /\ \A i \in 1 .. Len(userALTs) :
                  /\ userALTs'[i].address = userALTs[i].address
                  /\ userALTs[i].address # r.table => userALTs'[i] = userALTs[i]
                  /\ /\ userALTs[i].address = r.table
                     /\ r.exists
                     /\ status.kind # "refreshFailed"
                     /\ status' = status
                     => userALTs'[i].addresses = r.addresses
            /\ ~r.exists \/ status' # status => userALTs' = userALTs ]_vars

\* the refreshes that followed an extend of each of two tables have both
\* settled, and both cards show the longer table
C24_Witness ==
    /\ refreshes = {}
    /\ \A t \in TableIds :
          /\ Mounted(t)
          /\ Len(ViewOf(t)) >= DefaultAddressCount
          /\ ViewOf(t) = ledger[t].addresses

----------------------------------------------------------------------------
(* C25: fetchUserALTs goes through the accounts in order; the lookup of each
   either adds its table, with the addresses the ledger holds, to the end of
   the list being built, or skips it, and the loop goes on to the next
   account; after the last account the list is stored and the status reports
   its length.  The tables of the list being built are in account order.
   When the account query fails the failure is reported and the list stays;
   no other step of the tab reports that failure. *)

Position(accts, t) == CHOOSE i \in 1 .. Len(accts) : accts[i] = t

InAccountOrder ==
    fetch.pc = "lookup" =>
        \A j \in 1 .. Len(fetch.alts) :
            /\ \E i \in 1 .. fetch.i - 1 : fetch.accounts[i] = fetch.alts[j].address
            /\ \A k \in 1 .. j - 1 :
                  Position(fetch.accounts, fetch.alts[k].address)
                      < Position(fetch.accounts, fetch.alts[j].address)

C25_FetchSkipsFailures ==
    [][ /\ fetch.pc = "lookup" /\ fetch' # fetch =>
              LET t == fetch.accounts[fetch.i]
                  built == IF fetch'.pc = "lookup" THEN fetch'.alts ELSE userALTs'
              IN  /\ built \in {fetch.alts,
                                Append(fetch.alts, ALTData(t, ledger[t].addresses))}
                  /\ IF fetch.i < Len(fetch.accounts)
                     THEN /\ fetch'.pc = "lookup"
                          /\ fetch'.i = fetch.i + 1
                          /\ fetch'.accounts = fetch.accounts
                          /\ userALTs' = userALTs
                          /\ status' = status
                     ELSE /\ fetch'.pc = "idle"
                          /\ status' = Status("found", Len(userALTs'), NoPct)
                          /\ ~isLoadingALTs'
        /\ fetch.pc = "accounts" /\ fetch' # fetch =>
              \/ /\ fetch'.pc = "lookup"
                 /\ fetch'.alts = <<>>
                 /\ fetch'.i = 1
                 /\ userALTs' = userALTs
              \/ /\ fetch'.pc = "idle"
                 /\ status'.kind = "queryFailed"
                 /\ userALTs' = userALTs
              \/ /\ fetch'.pc = "idle"
                 /\ status' = Status("found", 0, NoPct)
                 /\ userALTs' = <<>>
        /\ status'.kind = "queryFailed" /\ status' # status
              => fetch.pc = "accounts"
        /\ InAccountOrder' ]_vars

\* a query has ended with one of the wallet's two tables skipped
C25_Witness ==
    /\ fetch.pc = "idle"
    /\ status = Status("found", 1, NoPct)
    /\ Len(userALTs) = 1
    /\ Cardinality(Listed) = 2

----------------------------------------------------------------------------
(* C26: the selection of a card is a subset of the addresses its selector
   lists: every selected string is the base58 form of an address of the
   list, after any sequence of check, uncheck, select-all and extend
   steps. *)

ListedAddresses(t) == { ToBase58(ViewOf(t)[i]) : i \in 1 .. Len(ViewOf(t)) }

C26_SelectionWithinTable ==
    \A t \in TableIds :
        Mounted(t) => cards[t].selectedAddresses \subseteq ListedAddresses(t)

----------------------------------------------------------------------------
(* C27: the fee comparison is present exactly when the recorded normal fee
   and the recorded ALT fee are both non-zero; then its savings are the
   normal fee minus the ALT fee and its percentage is a number, the savings
   over the normal fee in percent to the nearest tenth; otherwise there is no
   comparison and no percentage. *)

C27_ComparisonNeedsBothFees ==
    LET n == fees.normalTxFee
        a == fees.altTxFee
        c == FeeComparison(n, a)
    IN  /\ c.shown <=> (n # 0 /\ a # 0)
        /\ c.shown =>
              /\ c.savings = n - a
              /\ c.savingsPercentage.kind = "number"
              /\ 2 * Abs(c.savingsPercentage.tenths * n - 1000 * c.savings) <= n
        /\ ~c.shown => c.savingsPercentage = NoPct

\* both fees are recorded and the ALT fee is half the normal fee
C27_Witness ==
    /\ fees.normalTxFee = 10000
    /\ fees.altTxFee = 5000
    /\ FeeComparison(fees.normalTxFee, fees.altTxFee).savingsPercentage = Pct(500)

----------------------------------------------------------------------------
(* C28: a success marker is recorded only in the step in which the await of
   confirmTransaction of its handler resolves: the stored signature of the
   normal and of the ALT send, the address of the created table, the call of
   the refresh callback by extend and close, and the success status of each
   of them.  A step that reports the failure of one of these handlers leaves
   the signatures and the table address as they were and calls no refresh
   callback; a handler whose sendTransaction or confirmTransaction rejects
   ends with its failure status. *)

SuccessKinds == {"normalSent", "altSent", "created", "added", "closed"}

FailureKinds == {"normalFailed", "altFailed", "createFailed", "addFailed",
                 "closeFailed"}

\* the handler of table t whose confirmation is awaited ends in this step
CardConfirmed(t) ==
    /\ cards[t].handler.pc \in {"extendConfirm", "closeConfirm"}
    /\ cards'[t].handler.pc = "idle"

\* onRefresh is called in this step: a lookup is sent that no click sent
CallbackCalled ==
    /\ refreshes \subseteq refreshes'
    /\ refreshes' # refreshes
    /\ started' = started

C28_MarkersAfterConfirmation ==
    [][ /\ fees'.normalTxSignature # fees.normalTxSignature
              => fees.pc = "normalConfirm" /\ status'.kind = "normalSent"
        /\ fees'.altTxSignature # fees.altTxSignature
              => fees.pc = "altConfirm" /\ status'.kind = "altSent"
        /\ create'.altAddress # create.altAddress
              => create.pc = "confirm" /\ status'.kind = "created"
        /\ CallbackCalled
              => \E t \in TableIds :
                    CardConfirmed(t) /\ status'.kind \in {"added", "closed"}
        /\ status' # status /\ status'.kind \in SuccessKinds
              => \/ fees.pc = "normalConfirm" /\ status'.kind = "normalSent"
                 \/ fees.pc = "altConfirm" /\ status'.kind = "altSent"
                 \/ create.pc = "confirm" /\ status'.kind = "created"
                 \/ \E t \in TableIds :
                       /\ cards[t].handler.pc = "extendConfirm"
                       /\ status'.kind = "added"
                 \/ \E t \in TableIds :
                       /\ cards[t].handler.pc = "closeConfirm"
                       /\ status'.kind = "closed"
        /\ status' # status /\ status'.kind \in FailureKinds
              => /\ fees'.normalTxSignature = fees.normalTxSignature
                 /\ fees'.altTxSignature = fees.altTxSignature
                 /\ create'.altAddress = create.altAddress
                 /\ ~CallbackCalled
        /\ fees.pc = "normalSend" /\ fees'.pc = "idle"
              => status'.kind = "normalFailed"
        /\ fees.pc = "altSend" /\ fees'.pc = "idle"
              => status'.kind = "altFailed"
        /\ create.pc = "send" /\ create'.pc = "idle"
              => status'.kind = "createFailed"
        /\ \A t \in TableIds :
              /\ cards[t].handler.pc = "extendSend" /\ cards'[t].handler.pc = "idle"
                    => status'.kind = "addFailed"
              /\ cards[t].handler.pc = "closeSend" /\ cards'[t].handler.pc = "idle"
                    => status'.kind = "closeFailed"
              /\ CardConfirmed(t)
                    => status'.kind \in {"added", "closed", "addFailed",
                                         "closeFailed"}
        /\ fees.pc = "normalConfirm" /\ fees'.pc = "idle"
              => \/ /\ status'.kind = "normalSent"
                    /\ fees'.normalTxSignature # ""
                 \/ /\ status'.kind = "normalFailed"
                    /\ fees'.normalTxSignature = fees.normalTxSignature
        /\ fees.pc = "altConfirm" /\ fees'.pc = "idle"
              => \/ /\ status'.kind = "altSent"
                    /\ fees'.altTxSignature # ""
                 \/ /\ status'.kind = "altFailed"
                    /\ fees'.altTxSignature = fees.altTxSignature
        /\ create.pc = "confirm" /\ create'.pc = "idle"
              => \/ /\ status'.kind = "created"
                    /\ create'.altAddress = create.lookupTableAddress
                 \/ /\ status'.kind = "createFailed"
                    /\ create'.altAddress = create.altAddress ]_vars

\* a table has been created and confirmed: its address is stored
C28_Witness ==
    /\ create.altAddress \in TableIds
    /\ status.kind = "created"
    /\ create.pc = "idle"
    /\ ledger[create.altAddress].exists

====
